---- MODULE Spec2Model ----
(***************************************************************************)
(* Model of fa-2-iconify: the SVG normalizer (utils/svg), the kit parser   *)
(* (services/kitParserService, parseKit), the staging store                *)
(* (services/databaseService), the kit validation (validateKit), the       *)
(* package generator (generatePackage) and the workflow (runConverter).    *)
(*                                                                         *)
(* Representation.                                                         *)
(*  - A JavaScript string that the code inspects character by character   *)
(*    (attribute values, viewBox strings, names, JSON text) is a sequence  *)
(*    of one-character strings.                                            *)
(*  - "T | undefined" / "T | null" is a sequence of length 0 or 1.         *)
(*  - SVG text is a sequence of tokens: opening tags with their attribute  *)
(*    lists, closing tags, elements and whitespace runs.  The regular      *)
(*    expressions of utils/svg are evaluated over that token sequence in   *)
(*    document order.                                                      *)
(*  - Numbers are integers; the inputs contain no decimal point and no     *)
(*    exponent.                                                            *)
(***************************************************************************)
EXTENDS Integers, Sequences, FiniteSets, TLC

VARIABLES db, pc, metadata, svgSubdirs, style, svgFiles, listed, last, lastArg,
          answer, step, kit, validation, config, calls, written

\* what a runConverter run and the calls made from outside a run read and write
runVars == <<answer, step, kit, validation, config, calls, written>>

vars == <<db, pc, metadata, svgSubdirs, style, svgFiles, listed, last, lastArg, runVars>>

(***************************************************************************)
(* JavaScript values                                                       *)
(***************************************************************************)
Undefined == <<>>

Some(v) == <<v>>

IsDefined(m) == m # <<>>

Get(m) == m[1]

\* a ?? b
Coalesce(a, b) == IF IsDefined(a) THEN a ELSE b

\* A JavaScript object holding no own property.
EmptyObject == <<>>

(***************************************************************************)
(* Strings as character sequences                                          *)
(***************************************************************************)
\* The characters the model uses, in ascending code-unit order.
AsciiOrder ==
  << "\t", "\n", " ", "\"", "%", ",", "-",
     "0", "1", "2", "3", "4", "5", "6", "7", "8", "9",
     "A", "B", "M", "[", "]", "_",
     "a", "b", "c", "e", "f", "l", "m", "n", "o", "p", "r", "s", "t", "u", "x" >>

CharCode(c) == CHOOSE i \in 1..Len(AsciiOrder) : AsciiOrder[i] = c

Digits == <<"0", "1", "2", "3", "4", "5", "6", "7", "8", "9">>

IsDigit(c) == \E i \in 1..10 : Digits[i] = c

DigitVal(c) == (CHOOSE i \in 1..10 : Digits[i] = c) - 1

\* /\s/
IsSpace(c) == c \in {" ", "\n", "\t"}

RECURSIVE TrimStart(_)
TrimStart(s) ==
  IF s # <<>> /\ IsSpace(Head(s)) THEN TrimStart(Tail(s)) ELSE s

RECURSIVE TrimEnd(_)
TrimEnd(s) ==
  IF s # <<>> /\ IsSpace(s[Len(s)]) THEN TrimEnd(SubSeq(s, 1, Len(s) - 1)) ELSE s

\* String.prototype.trim
Trim(s) == TrimEnd(TrimStart(s))

\* a < b for strings: code-unit lexicographic order (also SQLite's BINARY collation)
RECURSIVE StrLess(_, _)
StrLess(a, b) ==
  IF b = <<>> THEN FALSE
  ELSE IF a = <<>> THEN TRUE
  ELSE IF Head(a) = Head(b) THEN StrLess(Tail(a), Tail(b))
  ELSE CharCode(Head(a)) < CharCode(Head(b))

RECURSIVE DigitsValue(_, _)
DigitsValue(s, acc) ==
  IF s # <<>> /\ IsDigit(Head(s))
    THEN DigitsValue(Tail(s), 10 * acc + DigitVal(Head(s)))
    ELSE acc

\* Number.parseFloat on a string without '.', exponent or "Infinity":
\* leading whitespace is skipped, an optional sign and the longest run of
\* digits are read, anything after is ignored; NaN when no digit is read.
NaN == <<>>

ParseFloat(s) ==
  LET t == TrimStart(s)
      neg == t # <<>> /\ Head(t) = "-"
      u == IF neg THEN Tail(t) ELSE t
  IN IF u = <<>> \/ ~IsDigit(Head(u)) THEN NaN
     ELSE Some(IF neg THEN 0 - DigitsValue(u, 0) ELSE DigitsValue(u, 0))

RECURSIVE NatToString(_)
NatToString(n) ==
  IF n < 10 THEN <<Digits[n + 1]>>
  ELSE NatToString(n \div 10) \o <<Digits[(n % 10) + 1]>>

\* `${n}` / String(n) for an integer
NumberToString(n) ==
  IF n < 0 THEN <<"-">> \o NatToString(0 - n) ELSE NatToString(n)

\* value.split(/[\s,]+/): the pieces between maximal runs of separators
IsSep(c) == IsSpace(c) \/ c = ","

RECURSIVE SplitSep(_, _, _)
SplitSep(s, cur, inSep) ==
  IF s = <<>> THEN <<cur>>
  ELSE IF IsSep(Head(s))
    THEN IF inSep THEN SplitSep(Tail(s), cur, TRUE)
         ELSE <<cur>> \o SplitSep(Tail(s), <<>>, TRUE)
  ELSE SplitSep(Tail(s), Append(cur, Head(s)), FALSE)

Split(s) == SplitSep(s, <<>>, FALSE)

(***************************************************************************)
(* JSON text of a string array (terms hold no quote and no backslash)      *)
(***************************************************************************)
RECURSIVE JoinQuoted(_)
JoinQuoted(terms) ==
  IF terms = <<>> THEN <<>>
  ELSE (<<"\"">> \o Head(terms) \o <<"\"">>)
       \o (IF Tail(terms) = <<>> THEN <<>> ELSE <<",">> \o JoinQuoted(Tail(terms)))

\* JSON.stringify(string[])
JsonStringify(terms) == <<"[">> \o JoinQuoted(terms) \o <<"]">>

RECURSIVE JsonScan(_, _, _, _)
JsonScan(s, cur, inStr, acc) ==
  IF s = <<>> THEN acc
  ELSE IF Head(s) = "\""
    THEN IF inStr THEN JsonScan(Tail(s), <<>>, FALSE, Append(acc, cur))
         ELSE JsonScan(Tail(s), <<>>, TRUE, acc)
  ELSE IF inStr THEN JsonScan(Tail(s), Append(cur, Head(s)), TRUE, acc)
  ELSE JsonScan(Tail(s), cur, FALSE, acc)

\* JSON.parse of the text of a string array
JsonParse(text) == JsonScan(text, <<>>, FALSE, <<>>)

(***************************************************************************)
(* SVG text as tokens                                                      *)
(***************************************************************************)
Attr(n, v) == [n |-> n, v |-> v]

OpenTag(tag, attrs) == [k |-> "open", tag |-> tag, attrs |-> attrs]

CloseTag(tag) == [k |-> "close", tag |-> tag, attrs |-> <<>>]

\* a self-closing element <tag a="v" ... />
Elem(tag, attrs) == [k |-> "elem", tag |-> tag, attrs |-> attrs]

\* a run of whitespace between tags
Ws(text) == [k |-> "ws", tag |-> text, attrs |-> <<>>]

RECURSIVE AllAttrs(_)
AllAttrs(doc) ==
  IF doc = <<>> THEN <<>> ELSE Head(doc).attrs \o AllAttrs(Tail(doc))

\* Does the text  <attribute name>="  contain  <pat>="  ?  The patterns of
\* utils/svg are not anchored, so width=" also occurs inside stroke-width=".
AttrNameMatches(pat, n) ==
  \/ n = pat
  \/ pat = "width" /\ n = "stroke-width"

RECURSIVE FirstAttrValue(_, _)
FirstAttrValue(attrs, pat) ==
  IF attrs = <<>> THEN Undefined
  ELSE IF AttrNameMatches(pat, Head(attrs).n) /\ Head(attrs).v # <<>>
    THEN Some(Head(attrs).v)
  ELSE FirstAttrValue(Tail(attrs), pat)

\* content.match(/<pat>="([^"]+)"/)?.[1] : the first non-empty value, in
\* document order, of an attribute whose text matches
AttrMatch(doc, pat) == FirstAttrValue(AllAttrs(doc), pat)

IsSvgOpen(t) == t.k = "open" /\ t.tag = "svg"

IsSvgClose(t) == t.k = "close" /\ t.tag = "svg"

RECURSIVE TrimTokensStart(_)
TrimTokensStart(ts) ==
  IF ts # <<>> /\ Head(ts).k = "ws" THEN TrimTokensStart(Tail(ts)) ELSE ts

RECURSIVE TrimTokensEnd(_)
TrimTokensEnd(ts) ==
  IF ts # <<>> /\ ts[Len(ts)].k = "ws"
    THEN TrimTokensEnd(SubSeq(ts, 1, Len(ts) - 1)) ELSE ts

\* content.match(/<svg[^>]*>([\s\S]*?)<\/svg>/i)?.[1]?.trim() : the markup
\* between the first <svg ...> and the first </svg> after it, trimmed;
\* the empty sequence when there is no match or nothing is left
InnerMarkup(doc) ==
  LET opens == {i \in 1..Len(doc) : IsSvgOpen(doc[i])}
  IN IF opens = {} THEN <<>>
     ELSE LET i == CHOOSE x \in opens : \A y \in opens : x <= y
              closes == {j \in (i + 1)..Len(doc) : IsSvgClose(doc[j])}
          IN IF closes = {} THEN <<>>
             ELSE LET j == CHOOSE x \in closes : \A y \in closes : x <= y
                  IN TrimTokensEnd(TrimTokensStart(SubSeq(doc, i + 1, j - 1)))

(***************************************************************************)
(* utils/svg                                                               *)
(***************************************************************************)
DEFAULT_SVG_DIMENSION == 512

Null == <<>>

\* parseNumericAttribute
ParseNumericAttribute(value) ==
  IF ~IsDefined(value) \/ Get(value) = <<>> THEN Undefined
  ELSE ParseFloat(Get(value))

\* .map((part) => Number.parseFloat(part))
ParseParts(pieces) == [i \in 1..Len(pieces) |-> ParseFloat(pieces[i])]

DimensionsOfParts(parts) ==
  IF Len(parts) # 4 \/ \E i \in 1..Len(parts) : parts[i] = NaN
    THEN [width |-> Undefined, height |-> Undefined]
    ELSE [width |-> parts[3], height |-> parts[4]]

\* parseViewBoxDimensions
ParseViewBoxDimensions(value) == DimensionsOfParts(ParseParts(Split(Trim(value))))

\* A file on disk: unreadable (Bun.file(...).text() rejects) or its text.
Unreadable == [readable |-> FALSE, content |-> <<>>]

File(doc) == [readable |-> TRUE, content |-> doc]

\* parseSvgFile from the point where body and viewBox are known
NormalizedSvg(body, viewBox, viewBoxDimensions, widthMatch, heightMatch) ==
  Some([body |-> body,
        width |-> Get(Coalesce(Coalesce(ParseNumericAttribute(widthMatch),
                                        viewBoxDimensions.width),
                               Some(DEFAULT_SVG_DIMENSION))),
        height |-> Get(Coalesce(Coalesce(ParseNumericAttribute(heightMatch),
                                         viewBoxDimensions.height),
                                Some(DEFAULT_SVG_DIMENSION))),
        viewBox |-> viewBox])

\* mutant: the check of the inner markup left out
ParseMatched_AnyBody(viewBoxMatch, widthMatch, heightMatch, body) ==
  IF ~IsDefined(viewBoxMatch) THEN Null
  ELSE NormalizedSvg(body, Trim(Get(viewBoxMatch)),
                     ParseViewBoxDimensions(Trim(Get(viewBoxMatch))),
                     widthMatch, heightMatch)

\* parseSvgFile after the four matches
ParseMatched(viewBoxMatch, widthMatch, heightMatch, body) ==
  IF ~IsDefined(viewBoxMatch) THEN Null
  ELSE IF body = <<>> THEN Null
  ELSE NormalizedSvg(body, Trim(Get(viewBoxMatch)),
                     ParseViewBoxDimensions(Trim(Get(viewBoxMatch))),
                     widthMatch, heightMatch)

\* parseSvgFile(filePath): Null when the read throws (catch)
ParseSvgFile(file) ==
  IF ~file.readable THEN Null
  ELSE ParseMatched(AttrMatch(file.content, "viewBox"), AttrMatch(file.content, "width"),
                    AttrMatch(file.content, "height"), InnerMarkup(file.content))

\* extractBodyFromRawSvg: the empty sequence stands for null
ExtractBodyFromRawSvg(raw) ==
  IF ~IsDefined(raw) \/ Get(raw) = <<>> THEN <<>>
  ELSE InnerMarkup(Get(raw))

CurrentColor == <<"c", "u", "r", "r", "e", "n", "t", "C", "o", "l", "o", "r">>

\* `<path d="${segment}" fill="currentColor" />`
PathElement(segment) ==
  Elem("path", <<Attr("d", segment), Attr("fill", CurrentColor)>>)

RECURSIVE JoinLines(_)
JoinLines(elements) ==
  IF elements = <<>> THEN <<>>
  ELSE <<Head(elements)>>
       \o (IF Tail(elements) = <<>> THEN <<>> ELSE <<Ws("\n")>> \o JoinLines(Tail(elements)))

\* A path value of a descriptor: a string or an array of strings.
PathString(s) == [isArray |-> FALSE, items |-> <<s>>]

PathArray(items) == [isArray |-> TRUE, items |-> items]

\* !svgData.path
PathIsFalsy(path) ==
  ~IsDefined(path) \/ (~Get(path).isArray /\ Get(path).items[1] = <<>>)

IsNonBlank(segment) == Trim(segment) # <<>>

\* mutant: blank path strings are wrapped like the others
BuildSvgBody_KeepsBlank(svgData) ==
  LET rawBody == ExtractBodyFromRawSvg(svgData.raw)
  IN IF rawBody # <<>> THEN rawBody
     ELSE IF PathIsFalsy(svgData.path) THEN <<>>
     ELSE LET pathList == Get(svgData.path).items
              elements == [i \in 1..Len(pathList) |-> PathElement(pathList[i])]
          IN JoinLines(elements)

\* buildSvgBody: the empty sequence stands for null
BuildSvgBody(svgData) ==
  LET rawBody == ExtractBodyFromRawSvg(svgData.raw)
  IN IF rawBody # <<>> THEN rawBody
     ELSE IF PathIsFalsy(svgData.path) THEN <<>>
     ELSE LET pathList == Get(svgData.path).items
              kept == SelectSeq(pathList, IsNonBlank)
              elements == [i \in 1..Len(kept) |-> PathElement(kept[i])]
          IN JoinLines(elements)

RECURSIVE JoinSpace(_)
JoinSpace(nums) ==
  IF nums = <<>> THEN <<>>
  ELSE NumberToString(Head(nums))
       \o (IF Tail(nums) = <<>> THEN <<>> ELSE <<" ">> \o JoinSpace(Tail(nums)))

HasViewBoxArray(svgData) ==
  IsDefined(svgData.viewBox) /\ Len(Get(svgData.viewBox)) = 4

\* mutant: width and height exchanged in the template
ZeroOriginViewBox_Swapped(w, h) ==
  <<"0", " ", "0", " ">> \o NumberToString(h) \o <<" ">> \o NumberToString(w)

\* `0 0 ${w} ${h}`
ZeroOriginViewBox(w, h) ==
  <<"0", " ", "0", " ">> \o NumberToString(w) \o <<" ">> \o NumberToString(h)

\* formatViewBox(svgData, width?, height?)
FormatViewBox(svgData, width, height) ==
  IF HasViewBoxArray(svgData) THEN JoinSpace(Get(svgData.viewBox))
  ELSE ZeroOriginViewBox(Get(Coalesce(width, Some(DEFAULT_SVG_DIMENSION))),
                         Get(Coalesce(height, Some(DEFAULT_SVG_DIMENSION))))

(***************************************************************************)
(* services/databaseService: the icons table, rows in rowid order          *)
(***************************************************************************)
\* The row stmt.run binds for an IconData: searchTerms goes in as JSON text,
\* an undefined unicode as NULL.
RowOf(iconData) ==
  [name |-> iconData.name, style |-> iconData.style, body |-> iconData.body,
   width |-> iconData.width, height |-> iconData.height,
   viewBox |-> iconData.viewBox, unicode |-> iconData.unicode,
   searchTerms |-> JsonStringify(iconData.searchTerms)]

SameKey(row, name, st) == row.name = name /\ row.style = st

\* mutant: the conflict is taken on the name alone, UNIQUE(name)
ReplaceRow_ByName(table, row) ==
  LET Other(r) == r.name # row.name
  IN Append(SelectSeq(table, Other), row)

\* mutant: INSERT OR IGNORE, the existing row stays
ReplaceRow_Ignore(table, row) ==
  IF \E i \in 1..Len(table) : SameKey(table[i], row.name, row.style)
    THEN table ELSE Append(table, row)

\* INSERT OR REPLACE under UNIQUE(name, style): the conflicting row is
\* deleted and the new row gets the next AUTOINCREMENT id, so it is last.
ReplaceRow(table, row) ==
  LET Other(r) == ~SameKey(r, row.name, row.style)
  IN Append(SelectSeq(table, Other), row)

\* mutant: a plain INSERT into a table without the UNIQUE constraint
InsertIcon_Append(table, iconData) == Append(table, RowOf(iconData))

\* insertIcon(db, iconData)
InsertIcon(table, iconData) == ReplaceRow(table, RowOf(iconData))

\* rows.map(row => ({..., searchTerms: JSON.parse(row.searchTerms || '[]')}))
IconDataOf(row, st) ==
  [name |-> row.name, style |-> st, body |-> row.body, width |-> row.width,
   height |-> row.height, viewBox |-> row.viewBox, unicode |-> row.unicode,
   searchTerms |-> JsonParse(IF row.searchTerms = <<>> THEN <<"[", "]">>
                             ELSE row.searchTerms)]

\* SELECT ... FROM icons WHERE style = ?  -- no ORDER BY: SQLite walks
\* idx_icons_style, whose entries for one style are in rowid order.
WhereStyle(table, st) ==
  LET Match(r) == r.style = st IN SelectSeq(table, Match)

\* getIconsByStyle(db, style)
GetIconsByStyle(table, st) ==
  [i \in 1..Len(WhereStyle(table, st)) |-> IconDataOf(WhereStyle(table, st)[i], st)]

RECURSIVE SortStrings(_)
SortStrings(set) ==
  IF set = {} THEN <<>>
  ELSE LET m == CHOOSE x \in set : \A y \in set \ {x} : StrLess(x, y)
       IN <<m>> \o SortStrings(set \ {m})

\* SELECT DISTINCT style FROM icons
DistinctStyles(table) == {table[i].style : i \in 1..Len(table)}

RECURSIVE FirstSeen(_, _)
FirstSeen(table, seen) ==
  IF table = <<>> THEN <<>>
  ELSE IF Head(table).style \in seen THEN FirstSeen(Tail(table), seen)
  ELSE <<Head(table).style>> \o FirstSeen(Tail(table), seen \cup {Head(table).style})

\* mutant: the ORDER BY clause left out
GetAvailableStyles_Unordered(table) == FirstSeen(table, {})

\* getAvailableStyles(db): SELECT DISTINCT style FROM icons ORDER BY style
GetAvailableStyles(table) == SortStrings(DistinctStyles(table))

\* SQLite folds the 26 upper-case ASCII letters for LIKE
LowerCase(c) ==
  CASE c = "A" -> "a" [] c = "B" -> "b" [] c = "M" -> "m" [] OTHER -> c

\* text LIKE pattern (no ESCAPE): % is any run of characters, _ any one
\* character, every other character matches itself up to ASCII case
RECURSIVE Like(_, _)
Like(pattern, text) ==
  IF pattern = <<>> THEN text = <<>>
  ELSE IF Head(pattern) = "%"
    THEN Like(Tail(pattern), text) \/ (text # <<>> /\ Like(pattern, Tail(text)))
  ELSE /\ text # <<>>
       /\ Head(pattern) = "_" \/ LowerCase(Head(pattern)) = LowerCase(Head(text))
       /\ Like(Tail(pattern), Tail(text))

\* `%${query}%`
LikeParam(query) == <<"%">> \o query \o <<"%">>

\* WHERE (name LIKE ? OR searchTerms LIKE ?): the searchTerms column holds
\* the JSON text written by insertIcon
RowMatches(row, query) ==
  Like(LikeParam(query), row.name) \/ Like(LikeParam(query), row.searchTerms)

\* mutant: the style restriction left out
StyleAllowed_Any(row, styles) == TRUE

\* if (styles && styles.length > 0) ... AND style IN (...)
StyleAllowed(row, styles) ==
  IsDefined(styles) /\ Len(Get(styles)) > 0
    => \E i \in 1..Len(Get(styles)) : Get(styles)[i] = row.style

\* ORDER BY name, style under the BINARY collation
RowBefore(a, b) == StrLess(a.name, b.name) \/ (a.name = b.name /\ StrLess(a.style, b.style))

RECURSIVE OrderRows(_)
OrderRows(rows) ==
  IF rows = {} THEN <<>>
  ELSE LET m == CHOOSE x \in rows : \A y \in rows \ {x} : RowBefore(x, y)
       IN <<m>> \o OrderRows(rows \ {m})

\* the rows searchIcons selects, in the order of the ORDER BY clause
SearchRows(table, query, styles) ==
  OrderRows({table[i] : i \in {j \in 1..Len(table) :
                                 RowMatches(table[j], query) /\ StyleAllowed(table[j], styles)}})

\* searchIcons(db, query, styles?)
SearchIcons(table, query, styles) ==
  [i \in 1..Len(SearchRows(table, query, styles)) |->
     IconDataOf(SearchRows(table, query, styles)[i], SearchRows(table, query, styles)[i].style)]

(***************************************************************************)
(* services/kitParserService                                               *)
(***************************************************************************)
DEFAULT_ICON_SIZE == 512

\* Own properties that every plain object inherits from Object.prototype;
\* metadata is created as {} and read with metadata[iconName].
ProtoName == <<"c", "o", "n", "s", "t", "r", "u", "c", "t", "o", "r">>

\* The accessor a plain object inherits as well: reading it yields the
\* prototype (an object), assigning an object to it replaces the prototype
\* and stores no own property.
ProtoSetter == <<"_", "_", "p", "r", "o", "t", "o", "_", "_">>

ObjectPrototypeKeys == {ProtoName, ProtoSetter}

\* Object.prototype.constructor read as a FontAwesomeIcon: a truthy value
\* without svg, unicode or search.
InheritedMember == [svg |-> Undefined, unicode |-> Undefined, searchTerms |-> Undefined]

\* metadata[iconName]
MetadataLookup(md, iconName) ==
  IF iconName \in DOMAIN md THEN Some(md[iconName])
  ELSE IF iconName \in ObjectPrototypeKeys THEN Some(InheritedMember)
  ELSE Undefined

\* icon.svg?.[style]
SvgDataOf(icon, st) ==
  IF IsDefined(icon.svg) /\ st \in DOMAIN Get(icon.svg)
    THEN Some(Get(icon.svg)[st]) ELSE Undefined

\* mutant: the descriptor's viewBox takes precedence over its explicit size
DeriveDimensions_ViewBoxFirst(svgData) ==
  IF ~IsDefined(svgData)
    THEN [width |-> DEFAULT_ICON_SIZE, height |-> DEFAULT_ICON_SIZE]
  ELSE
    LET d == Get(svgData)
        viewBoxWidth == IF HasViewBoxArray(d) THEN Some(Get(d.viewBox)[3]) ELSE Undefined
        viewBoxHeight == IF HasViewBoxArray(d) THEN Some(Get(d.viewBox)[4]) ELSE Undefined
    IN [width |-> Get(Coalesce(Coalesce(viewBoxWidth, d.width), Some(DEFAULT_ICON_SIZE))),
        height |-> Get(Coalesce(Coalesce(viewBoxHeight, d.height), Some(DEFAULT_ICON_SIZE)))]

\* deriveDimensions(svgData?)
DeriveDimensions(svgData) ==
  IF ~IsDefined(svgData)
    THEN [width |-> DEFAULT_ICON_SIZE, height |-> DEFAULT_ICON_SIZE]
  ELSE
    LET d == Get(svgData)
        viewBoxWidth == IF HasViewBoxArray(d) THEN Some(Get(d.viewBox)[3]) ELSE Undefined
        viewBoxHeight == IF HasViewBoxArray(d) THEN Some(Get(d.viewBox)[4]) ELSE Undefined
    IN [width |-> Get(Coalesce(Coalesce(d.width, viewBoxWidth), Some(DEFAULT_ICON_SIZE))),
        height |-> Get(Coalesce(Coalesce(d.height, viewBoxHeight), Some(DEFAULT_ICON_SIZE)))]

\* !viewBox for string | undefined
IsFalsyString(m) == ~IsDefined(m) \/ Get(m) = <<>>

\* body = parsedSvg.body; if (!body && svgData) body = buildSvgBody(svgData)
ResolveBody(parsedSvg, svgData) ==
  LET fileBody == IF IsDefined(parsedSvg) THEN Get(parsedSvg).body ELSE <<>>
  IN IF fileBody = <<>> /\ IsDefined(svgData) THEN BuildSvgBody(Get(svgData)) ELSE fileBody

\* width = parsedSvg.width ?? derivedWidth
ResolveWidth(parsedSvg, svgData) ==
  IF IsDefined(parsedSvg) THEN Get(parsedSvg).width ELSE DeriveDimensions(svgData).width

\* height = parsedSvg.height ?? derivedHeight
ResolveHeight(parsedSvg, svgData) ==
  IF IsDefined(parsedSvg) THEN Get(parsedSvg).height ELSE DeriveDimensions(svgData).height

\* viewBox = parsedSvg.viewBox, replaced when falsy by formatViewBox(svgData,
\* width, height) or, without a descriptor, by `0 0 ${width} ${height}`
ResolveViewBox(parsedSvg, svgData, width, height) ==
  IF IsDefined(parsedSvg) /\ ~IsFalsyString(Some(Get(parsedSvg).viewBox))
    THEN Get(parsedSvg).viewBox
  ELSE IF IsDefined(svgData) THEN FormatViewBox(Get(svgData), Some(width), Some(height))
  ELSE ZeroOriginViewBox(width, height)

\* the iconData literal of parseKit
IconDataFor(iconName, st, icon, body, width, height, viewBox) ==
  [name |-> iconName, style |-> st, body |-> body, width |-> width, height |-> height,
   viewBox |-> viewBox, unicode |-> icon.unicode,
   searchTerms |-> Get(Coalesce(icon.searchTerms, Some(<<>>)))]

\* the loop body once both sources are read
ReconcileSources(iconName, st, icon, svgData, parsedSvg) ==
  IconDataFor(iconName, st, icon,
              ResolveBody(parsedSvg, svgData),
              ResolveWidth(parsedSvg, svgData),
              ResolveHeight(parsedSvg, svgData),
              ResolveViewBox(parsedSvg, svgData, ResolveWidth(parsedSvg, svgData),
                             ResolveHeight(parsedSvg, svgData)))

\* if (!body) continue
SkipWithoutBody(iconData) == IF iconData.body = <<>> THEN Undefined ELSE Some(iconData)

\* mutant: the check that skips a pair without a body left out
ReconcileIcon_NoSkip(iconName, st, icon, file) ==
  Some(ReconcileSources(iconName, st, icon, SvgDataOf(icon, st), ParseSvgFile(file)))

\* The body of the inner loop of parseKit after the metadata check: the
\* IconData handed to insertIcon, or Undefined when the pair is skipped.
ReconcileIcon(iconName, st, icon, file) ==
  SkipWithoutBody(
    ReconcileSources(iconName, st, icon, SvgDataOf(icon, st), ParseSvgFile(file)))

(***************************************************************************)
(* generatePackage: icon sets per style and the files of the package      *)
(***************************************************************************)
\* obj[key] = value for a plain object and an object value: the own
\* properties of obj afterwards
SetProperty(obj, key, value) ==
  IF key = ProtoSetter THEN obj
  ELSE [k \in DOMAIN obj \cup {key} |-> IF k = key THEN value ELSE obj[k]]

\* the object literal assigned to iconifyIcons[icon.name]
IconifyIcon(icon) ==
  [body |-> icon.body, width |-> icon.width, height |-> icon.height,
   left |-> 0, top |-> 0, rotate |-> 0, vFlip |-> FALSE, hFlip |-> FALSE]

\* for (const icon of icons) iconifyIcons[icon.name] = {...}
RECURSIVE IconifyIcons(_, _)
IconifyIcons(icons, iconifyIcons) ==
  IF icons = <<>> THEN iconifyIcons
  ELSE IconifyIcons(Tail(icons),
                    SetProperty(iconifyIcons, Head(icons).name, IconifyIcon(Head(icons))))

\* the StyleIconSet assigned to styleSets[style]
StyleIconSet(cfg, st, icons) ==
  [prefix |-> cfg.prefix \o <<"-">> \o st,
   icons |-> IconifyIcons(icons, EmptyObject),
   width |-> 24, height |-> 24,
   info |-> [total |-> Len(icons)]]

\* mutant: an icon set is built for a style without records too
SkipsStyle_Never(icons) == FALSE

\* if (icons.length === 0) continue
SkipsStyle(icons) == Len(icons) = 0

\* the loop over config.selectedStyles: styleSets and totalIcons after it
RECURSIVE BuildStyleSets(_, _, _, _)
BuildStyleSets(table, cfg, selected, acc) ==
  IF selected = <<>> THEN acc
  ELSE IF SkipsStyle(GetIconsByStyle(table, Head(selected)))
    THEN BuildStyleSets(table, cfg, Tail(selected), acc)
  ELSE BuildStyleSets(table, cfg, Tail(selected),
         [styleSets |-> SetProperty(acc.styleSets, Head(selected),
                                    StyleIconSet(cfg, Head(selected),
                                                 GetIconsByStyle(table, Head(selected)))),
          totalIcons |-> acc.totalIcons + Len(GetIconsByStyle(table, Head(selected)))])

\* c.toUpperCase() for the letters style names are written in here
UpperCase(c) ==
  CASE c = "a" -> "A" [] c = "b" -> "B" [] c = "r" -> "R" [] c = "s" -> "S"
    [] c = "t" -> "T" [] OTHER -> c

\* style.charAt(0).toUpperCase() + style.slice(1).replace(/-/g, '')
StyleName(st) ==
  LET NotHyphen(c) == c # "-"
  IN IF st = <<>> THEN <<>> ELSE <<UpperCase(Head(st))>> \o SelectSeq(Tail(st), NotHyphen)

\* `fa${styleName}Set`
ExportName(st) == <<"f", "a">> \o StyleName(st) \o <<"S", "e", "t">>

\* the files Bun.write creates under config.outputDir: the fixed ones and,
\* for every entry of styleSets, the module and the JSON of the style
PackageFiles(styleSets) ==
  { <<"package.json">>, <<"src/index.ts">>, <<"types/index.d.ts">>, <<"README.md">>,
    <<".gitignore">>, <<".npmignore">> }
    \cup { <<"src/", st, ".json">> : st \in DOMAIN styleSets }
    \cup { <<"src/", ExportName(st), ".ts">> : st \in DOMAIN styleSets }

\* package.json: the keys `./${exportName}` of exports, one for every entry of
\* config.selectedStyles (the key '.' left aside), by their export names
PackageExports(cfg) ==
  {ExportName(cfg.selectedStyles[i]) : i \in 1..Len(cfg.selectedStyles)}

\* src/index.ts: the modules of the lines
\* export { fa${styleName}Set } from './fa${styleName}Set.js'
IndexExports(cfg) ==
  [i \in 1..Len(cfg.selectedStyles) |-> ExportName(cfg.selectedStyles[i])]

\* generatePackage(db, config) when no file operation fails: the icon sets
\* written, the files written, what package.json and src/index.ts export,
\* and the number returned
GeneratePackage(table, cfg) ==
  LET built == BuildStyleSets(table, cfg, cfg.selectedStyles,
                              [styleSets |-> EmptyObject, totalIcons |-> 0])
  IN [styleSets |-> built.styleSets, totalIcons |-> built.totalIcons,
      files |-> PackageFiles(built.styleSets),
      exports |-> PackageExports(cfg), indexExports |-> IndexExports(cfg)]

(***************************************************************************)
(* validateKit                                                             *)
(*   A kit is what the file system holds at the three required paths:      *)
(*   dirs[d] is "absent" (stat throws), "file" (not a directory), "dir",   *)
(*   or "locked" (a directory that readdir cannot list); metadataFiles     *)
(*   the names in the metadata directory; styleDirs the subdirectories of  *)
(*   the svgs directory with their files.                                  *)
(***************************************************************************)
\* Object.values(FONTAWESOME_KIT_STRUCTURE)
RequiredDirs == <<"metadata", "svgs", "otfs">>

\* file.endsWith(suffix)
EndsWith(name, suffix) ==
  /\ Len(name) >= Len(suffix)
  /\ SubSeq(name, Len(name) - Len(suffix) + 1, Len(name)) = suffix

DotJson == <<".", "j", "s", "o", "n">>

\* the error pushed for one required path, if any
DirError(state, dir) ==
  IF state = "absent" THEN <<[kind |-> "missing", dir |-> dir]>>
  ELSE IF state = "file" THEN <<[kind |-> "notDirectory", dir |-> dir]>>
  ELSE <<>>

\* for (const dir of requiredDirs) { try { stat ... } catch { ... } }
RECURSIVE CheckRequiredDirs(_, _)
CheckRequiredDirs(dirs, todo) ==
  IF todo = <<>> THEN <<>>
  ELSE DirError(dirs[Head(todo)], Head(todo)) \o CheckRequiredDirs(dirs, Tail(todo))

\* mutant: the loop stops at the first path that fails
RequiredDirErrors_FirstOnly(k) ==
  IF CheckRequiredDirs(k.dirs, RequiredDirs) = <<>> THEN <<>>
  ELSE <<Head(CheckRequiredDirs(k.dirs, RequiredDirs))>>

\* result.errors after the loop over requiredDirs
RequiredDirErrors(k) == CheckRequiredDirs(k.dirs, RequiredDirs)

\* (await readdir(metadataDir)).filter((file) => file.endsWith('.json'))
JsonFiles(names) == {n \in names : EndsWith(n, DotJson)}

\* if (metadataFiles.length === 0) result.errors.push(...)
MetadataErrors(k) ==
  IF JsonFiles(k.metadataFiles) = {} THEN <<[kind |-> "noMetadataJson", dir |-> "metadata"]>>
  ELSE <<>>

\* mutant: a svgs directory without subdirectories is an error
SubdirFindings_AsError(k) ==
  IF k.styleDirs = <<>>
    THEN [errors |-> <<[kind |-> "noSvgSubdirs", dir |-> "svgs"]>>, warnings |-> <<>>]
    ELSE [errors |-> <<>>, warnings |-> <<>>]

\* if (svgSubdirs.length === 0) result.warnings.push(...)
SubdirFindings(k) ==
  IF k.styleDirs = <<>>
    THEN [errors |-> <<>>, warnings |-> <<[kind |-> "noSvgSubdirs", dir |-> "svgs"]>>]
    ELSE [errors |-> <<>>, warnings |-> <<>>]

ValidationResult(errors, warnings) ==
  [outcome |-> "returned", isValid |-> errors = <<>>, errors |-> errors,
   warnings |-> warnings]

\* a rejected promise: readdir threw inside validateKit
ValidationThrew ==
  [outcome |-> "threw", isValid |-> FALSE, errors |-> <<>>, warnings |-> <<>>]

\* validateKit after the loop found every required path to be a directory
ValidateContents(k) ==
  IF k.dirs["metadata"] = "locked" \/ k.dirs["svgs"] = "locked" THEN ValidationThrew
  ELSE ValidationResult(MetadataErrors(k) \o SubdirFindings(k).errors,
                        SubdirFindings(k).warnings)

\* validateKit()
ValidateKit(k) ==
  IF RequiredDirErrors(k) # <<>>
    THEN ValidationResult(RequiredDirErrors(k), <<>>)
    ELSE ValidateContents(k)

(***************************************************************************)
(* Inputs: kits the parser may be given                                    *)
(***************************************************************************)
\* most SVG files a kit holds, over all its style directories
MaxFiles == 2

StyleR == <<"r">>

StyleS == <<"s">>

Styles == {StyleR, StyleS}

NameA == <<"a">>

NameB == <<"b">>

FileNames == {NameA, NameB, ProtoName}

VB_0_0_20_10 == <<"0", " ", "0", " ", "2", "0", " ", "1", "0">>

PathM0 == Elem("path", <<Attr("d", <<"M", "0">>)>>)

\* <svg width="12px" height="6" viewBox="0 0 20 10"><rect width="2" height="2"/></svg>
SvgExplicit ==
  << OpenTag("svg", <<Attr("width", <<"1", "2", "p", "x">>), Attr("height", <<"6">>),
                      Attr("viewBox", VB_0_0_20_10)>>),
     Elem("rect", <<Attr("width", <<"2">>), Attr("height", <<"2">>)>>),
     CloseTag("svg") >>

\* <svg viewBox="0 0 20 10"> <path d="M0"/> </svg>
SvgViewBoxOnly ==
  << OpenTag("svg", <<Attr("viewBox", VB_0_0_20_10)>>),
     Ws(" "), PathM0, Ws("\n"), CloseTag("svg") >>

\* <svg><path d="M0"/></svg>
SvgNoViewBox == << OpenTag("svg", <<>>), PathM0, CloseTag("svg") >>

\* <svg viewBox="0 0 20 10"> </svg>
SvgEmptyBody ==
  << OpenTag("svg", <<Attr("viewBox", VB_0_0_20_10)>>), Ws(" "), CloseTag("svg") >>

\* <svg viewBox=" "><path d="M0"/></svg>
SvgBlankViewBox ==
  << OpenTag("svg", <<Attr("viewBox", <<" ">>)>>), PathM0, CloseTag("svg") >>

\* <svg width="0" height="0" viewBox="0 0 0 0"><path d="M0"/></svg>
SvgZeroSize ==
  << OpenTag("svg", <<Attr("width", <<"0">>), Attr("height", <<"0">>),
                      Attr("viewBox", <<"0", " ", "0", " ", "0", " ", "0">>)>>),
     PathM0, CloseTag("svg") >>

SvgFiles ==
  { File(SvgExplicit), File(SvgViewBoxOnly), File(SvgNoViewBox), File(SvgEmptyBody),
    File(SvgBlankViewBox), File(SvgZeroSize), Unreadable }

SvgData(raw, path, viewBox, width, height) ==
  [raw |-> raw, path |-> path, viewBox |-> viewBox, width |-> width, height |-> height]

\* {raw: '<svg viewBox="0 0 20 10"><g/></svg>', path: ['M1'],
\*  viewBox: [0, 0, 20, 10], width: 30, height: 40}
DescFull ==
  SvgData(Some(<< OpenTag("svg", <<Attr("viewBox", VB_0_0_20_10)>>), Elem("g", <<>>),
                  CloseTag("svg") >>),
          Some(PathArray(<< <<"M", "1">> >>)),
          Some(<<0, 0, 20, 10>>), Some(30), Some(40))

\* {path: ['M1', ' ', 'M2'], viewBox: [0, 0, 20, 10]}
DescPaths ==
  SvgData(Undefined, Some(PathArray(<< <<"M", "1">>, <<" ">>, <<"M", "2">> >>)),
          Some(<<0, 0, 20, 10>>), Undefined, Undefined)

\* {path: 'M1', viewBox: [0, 0, 20], width: 30}
DescOdd ==
  SvgData(Undefined, Some(PathString(<<"M", "1">>)), Some(<<0, 0, 20>>),
          Some(30), Undefined)

\* {}
DescEmpty == SvgData(Undefined, Undefined, Undefined, Undefined, Undefined)

Icon(svg, unicode, searchTerms) ==
  [svg |-> svg, unicode |-> unicode, searchTerms |-> searchTerms]

IconFull ==
  Icon(Some((StyleR :> DescFull) @@ (StyleS :> DescPaths)), Some("f101"),
       Some(<< <<"a", "x">>, <<"b">> >>))

IconSparse ==
  Icon(Some((StyleR :> DescEmpty) @@ (StyleS :> DescOdd)), Some("f102"), Undefined)

\* svg: {} as in the kit parser's tests
IconNoSvg == Icon(Some(<<>>), Some("f103"), Some(<<>>))

Icons == {IconFull, IconSparse, IconNoSvg}

\* icons.json documents
Metadatas ==
  { <<>>,
    (NameA :> IconFull) @@ (NameB :> IconSparse),
    (NameA :> IconSparse) @@ (NameB :> IconFull),
    (NameA :> IconNoSvg) }

RECURSIVE DistinctSeqs(_, _)
DistinctSeqs(set, n) ==
  IF n = 0 THEN {<<>>}
  ELSE {<<>>} \cup {<<x>> \o t : x \in set, t \in DistinctSeqs(set, n - 1)}

NoRepeat(q) == \A i, j \in 1..Len(q) : i # j => q[i] # q[j]

\* what readdir can return: distinct entries in any order
Listings(set, n) == {q \in DistinctSeqs(set, n) : NoRepeat(q)}

(***************************************************************************)
(* State                                                                   *)
(*   db          the icons table of the in-memory database                 *)
(*   pc          where parseKit stands: "start" (database created),        *)
(*               "svgs" (metadata loaded), "styles" (between style         *)
(*               directories), "files" (inside one), "done" (returned)     *)
(*   metadata    the metadata object of parseKit                           *)
(*   svgSubdirs  style directories still to visit                          *)
(*   style       the style directory being visited                         *)
(*   svgFiles    files of that directory still to visit                    *)
(*   listed      what readdir returned for each style directory visited    *)
(*   last        the file visited last and what became of it               *)
(*   lastArg     the latest insertIcon argument for each (name, style)     *)
(***************************************************************************)
NoFile == [outcome |-> "none", name |-> <<>>, style |-> <<>>, file |-> Unreadable,
           hasEntry |-> FALSE]

\* the number of files the style directories visited so far hold
RECURSIVE CountListed(_, _)
CountListed(l, S) ==
  IF S = {} THEN 0
  ELSE LET s == CHOOSE x \in S : TRUE
       IN (IF IsDefined(l[s]) THEN Len(Get(l[s])) ELSE 0) + CountListed(l, S \ {s})

Key(iconData) == <<iconData.name, iconData.style>>

NoAnswer == [op |-> "none"]

\* const config: KitConfig = {..., prefix: '', selectedStyles: []}
NoConfig == [prefix |-> <<>>, selectedStyles |-> <<>>]

\* no runConverter run and no outside call has happened
RunIdle ==
  /\ answer = NoAnswer
  /\ step = "idle"
  /\ kit = <<>>
  /\ validation = Undefined
  /\ config = NoConfig
  /\ calls = <<>>
  /\ written = {}

Init ==
  /\ db = <<>>
  /\ pc = "start"
  /\ metadata = EmptyObject
  /\ svgSubdirs = <<>>
  /\ style = <<>>
  /\ svgFiles = <<>>
  /\ listed = [s \in Styles |-> Undefined]
  /\ last = NoFile
  /\ lastArg = <<>>
  /\ RunIdle

\* initDatabase(): a new, empty in-memory database for the next run
InitDatabase ==
  /\ pc = "done"
  /\ db' = <<>>
  /\ pc' = "start"
  /\ metadata' = EmptyObject
  /\ svgSubdirs' = <<>>
  /\ style' = <<>>
  /\ svgFiles' = <<>>
  /\ listed' = [s \in Styles |-> Undefined]
  /\ last' = NoFile
  /\ lastArg' = <<>>
  /\ UNCHANGED runVars

\* parseKit: readJsonFile(icons.json), null when it cannot be read or parsed,
\* then Object.assign(metadata, iconsMetadata)
LoadMetadata ==
  /\ pc = "start"
  /\ \E iconsMetadata \in {Some(m) : m \in Metadatas} \cup {Null} :
       metadata' = IF IsDefined(iconsMetadata) THEN Get(iconsMetadata) ELSE EmptyObject
  /\ pc' = "svgs"
  /\ UNCHANGED <<db, svgSubdirs, style, svgFiles, listed, last, lastArg, runVars>>

\* parseKit: readdir(svgsDir) filtered to directories
ReadSvgsDir ==
  /\ pc = "svgs"
  /\ \E subdirs \in Listings(Styles, Cardinality(Styles)) : svgSubdirs' = subdirs
  /\ pc' = "styles"
  /\ UNCHANGED <<db, metadata, style, svgFiles, listed, last, lastArg, runVars>>

\* parseKit: the outer loop takes the next style and lists its .svg files
ReadStyleDir ==
  /\ pc = "styles"
  /\ svgSubdirs # <<>>
  /\ style' = Head(svgSubdirs)
  /\ svgSubdirs' = Tail(svgSubdirs)
  /\ \E files \in Listings(FileNames, MaxFiles - CountListed(listed, Styles)) :
       /\ svgFiles' = files
       /\ listed' = [listed EXCEPT ![Head(svgSubdirs)] = Some(files)]
       /\ pc' = IF files = <<>> THEN "styles" ELSE "files"
  /\ UNCHANGED <<db, metadata, last, lastArg, runVars>>

\* what the inner loop hands to insertIcon for a file, if anything
Reconciled(md, iconName, st, file) ==
  IF IsDefined(MetadataLookup(md, iconName))
    THEN ReconcileIcon(iconName, st, Get(MetadataLookup(md, iconName)), file)
    ELSE Undefined

Seen(outcome, md, iconName, st, file) ==
  [outcome |-> outcome, name |-> iconName, style |-> st, file |-> file,
   hasEntry |-> iconName \in DOMAIN md]

\* parseKit: one pass of the inner loop over the next file of the style
ProcessSvgFile ==
  /\ pc = "files"
  /\ svgFiles # <<>>
  /\ \E file \in SvgFiles :
       \E iconData \in {Reconciled(metadata, Head(svgFiles), style, file)} :
         IF IsDefined(iconData)
           THEN /\ db' = InsertIcon(db, Get(iconData))
                /\ lastArg' = (Key(Get(iconData)) :> Get(iconData)) @@ lastArg
                /\ last' = Seen("inserted", metadata, Head(svgFiles), style, file)
           ELSE /\ UNCHANGED <<db, lastArg>>
                /\ last' = Seen(IF IsDefined(MetadataLookup(metadata, Head(svgFiles)))
                                  THEN "nobody" ELSE "nometa",
                                metadata, Head(svgFiles), style, file)
  /\ svgFiles' = Tail(svgFiles)
  /\ pc' = IF Tail(svgFiles) = <<>> THEN "styles" ELSE "files"
  /\ UNCHANGED <<metadata, svgSubdirs, style, listed, runVars>>

\* parseKit: return metadata
ParseKitReturn ==
  /\ pc = "styles"
  /\ svgSubdirs = <<>>
  /\ pc' = "done"
  /\ UNCHANGED <<db, metadata, svgSubdirs, style, svgFiles, listed, last, lastArg, runVars>>

Next ==
  \/ InitDatabase
  \/ LoadMetadata
  \/ ReadSvgsDir
  \/ ReadStyleDir
  \/ ProcessSvgFile
  \/ ParseKitReturn

\* One conversion run after another: initDatabase, then parseKit over a kit.
Spec == Init /\ [][Next]_vars

(***************************************************************************)
(* The store on its own: any sequence of insertIcon calls                  *)
(***************************************************************************)
TermsAxB == << <<"a", "x">>, <<"b">> >>

\* the two records a caller may pass for a key
IconDataOne(name, st) ==
  [name |-> name, style |-> st, body |-> <<PathM0>>, width |-> 20, height |-> 10,
   viewBox |-> VB_0_0_20_10, unicode |-> Some("f101"), searchTerms |-> TermsAxB]

IconDataTwo(name, st) ==
  [name |-> name, style |-> st, body |-> <<Elem("g", <<>>)>>, width |-> 512,
   height |-> 512, viewBox |-> ZeroOriginViewBox(512, 512), unicode |-> Undefined,
   searchTerms |-> <<>>]

StoreNames == {NameA, NameB}

IconDatas ==
  {IconDataOne(n, s) : n \in StoreNames, s \in Styles}
    \cup {IconDataTwo(n, s) : n \in StoreNames, s \in Styles}

HasKey(table, name, st) == \E i \in 1..Len(table) : SameKey(table[i], name, st)

\* a caller invokes insertIcon(db, iconData)
InsertIconCall ==
  /\ pc = "start"
  /\ \E iconData \in IconDatas :
       /\ db' = InsertIcon(db, iconData)
       /\ lastArg' = (Key(iconData) :> iconData) @@ lastArg
       /\ last' = [outcome |-> IF HasKey(db, iconData.name, iconData.style)
                                 THEN "replaced" ELSE "added",
                   name |-> iconData.name, style |-> iconData.style,
                   file |-> Unreadable, hasEntry |-> FALSE]
  /\ UNCHANGED <<pc, metadata, svgSubdirs, style, svgFiles, listed, runVars>>

NextStore == InsertIconCall

SpecStore == Init /\ [][NextStore]_vars

(***************************************************************************)
(* Reading the store: searchIcons and generatePackage over a filled store  *)
(***************************************************************************)
\* most insertIcon calls made before the store is read
MaxInserts == 3

StyleT == <<"t">>

NameUpperB == <<"B">>

QueryRecord(name, st, terms) ==
  [name |-> name, style |-> st, body |-> <<PathM0>>, width |-> 20, height |-> 10,
   viewBox |-> VB_0_0_20_10, unicode |-> Some("f101"), searchTerms |-> terms]

QueryIconDatas ==
  { QueryRecord(NameA, StyleR, TermsAxB),
    QueryRecord(NameA, StyleS, <<>>),
    QueryRecord(NameUpperB, StyleR, << <<"a">> >>),
    QueryRecord(NameB, StyleS, << <<"A", "b">> >>),
    QueryRecord(ProtoSetter, StyleR, <<>>) }

\* the tables that at most n insertIcon calls on a new database leave
RECURSIVE Tables(_)
Tables(n) ==
  IF n = 0 THEN {<<>>}
  ELSE Tables(n - 1) \cup {InsertIcon(t, d) : t \in Tables(n - 1), d \in QueryIconDatas}

Queries == { <<>>, <<"a">>, <<"B">>, <<"x">>, <<"_">>, <<"\"">> }

StyleLists ==
  { Undefined, Some(<<>>), Some(<<StyleR>>), Some(<<StyleS, StyleR>>), Some(<<StyleT>>) }

Prefix == <<"f", "a">>

InitQuery ==
  /\ db \in Tables(MaxInserts)
  /\ pc = "start"
  /\ metadata = EmptyObject
  /\ svgSubdirs = <<>>
  /\ style = <<>>
  /\ svgFiles = <<>>
  /\ listed = [s \in Styles |-> Undefined]
  /\ last = NoFile
  /\ lastArg = <<>>
  /\ RunIdle

\* a caller invokes searchIcons(db, query, styles); the store is read once
\* in a behaviour, since no read changes what a later read sees
SearchIconsCall ==
  /\ answer = NoAnswer
  /\ \E query \in Queries, styles \in StyleLists :
       answer' = [op |-> "searchIcons", query |-> query, styles |-> styles,
                  result |-> SearchIcons(db, query, styles)]
  /\ UNCHANGED <<db, pc, metadata, svgSubdirs, style, svgFiles, listed, last, lastArg,
                 step, kit, validation, config, calls, written>>

\* a caller invokes generatePackage(db, config); when a file operation
\* fails the error is rethrown (catch: s.stop, throw error)
GeneratePackageCall ==
  /\ answer = NoAnswer
  /\ \E selected \in Listings(Styles \cup {StyleT}, Cardinality(Styles) + 1),
        writable \in BOOLEAN :
       LET cfg == [prefix |-> Prefix, selectedStyles |-> selected]
       IN /\ config' = cfg
          /\ IF writable
               THEN /\ answer' = [op |-> "generatePackage", writable |-> writable,
                                  outcome |-> "returned",
                                  styleSets |-> GeneratePackage(db, cfg).styleSets,
                                  totalIcons |-> GeneratePackage(db, cfg).totalIcons,
                                  exports |-> GeneratePackage(db, cfg).exports,
                                  indexExports |-> GeneratePackage(db, cfg).indexExports]
                    /\ written' = GeneratePackage(db, cfg).files
               ELSE /\ answer' = [op |-> "generatePackage", writable |-> writable,
                                  outcome |-> "threw",
                                  styleSets |-> EmptyObject, totalIcons |-> 0,
                                  exports |-> {}, indexExports |-> <<>>]
                    /\ written' = {}
  /\ UNCHANGED <<db, pc, metadata, svgSubdirs, style, svgFiles, listed, last, lastArg,
                 step, kit, validation, calls>>

NextQuery ==
  \/ SearchIconsCall
  \/ GeneratePackageCall

SpecQuery == InitQuery /\ [][NextQuery]_vars

(***************************************************************************)
(* utils/svg on its own: parseSvgFile over files, buildSvgBody over        *)
(* descriptors                                                             *)
(***************************************************************************)
\* values of a width= or height= attribute of the svg tag; Undefined: none
SizeTexts == { Undefined, Some(<<"1", "2", "p", "x">>), Some(<<"6">>), Some(<<"x">>) }

\* values of a viewBox= attribute of the svg tag; Undefined: none
ViewBoxTexts ==
  { Undefined, Some(VB_0_0_20_10), Some(<<>>), Some(<<" ">>),
    Some(<<"0", " ", "0", " ", "2", "0">>),
    Some(<<"0", ",", "0", ",", "2", "0", ",", "1", "0">>),
    Some(<<" ">> \o VB_0_0_20_10 \o <<"\n">>) }

\* what stands between <svg ...> and </svg>
Markups ==
  { <<>>, <<Ws(" ")>>, <<PathM0>>, <<Ws("\n"), PathM0, Ws(" ")>>,
    <<Elem("rect", <<Attr("width", <<"2">>), Attr("height", <<"3">>)>>)>>,
    <<Elem("path", <<Attr("stroke-width", <<"4">>), Attr("d", <<"M", "0">>)>>)>> }

Present(n, text) == IF IsDefined(text) THEN <<Attr(n, Get(text))>> ELSE <<>>

\* <svg width=".." height=".." viewBox="..">markup</svg>, each attribute optional
SvgDocument(w, h, vb, markup) ==
  <<OpenTag("svg", Present("width", w) \o Present("height", h) \o Present("viewBox", vb))>>
    \o markup \o <<CloseTag("svg")>>

SvgInputs ==
  {File(SvgDocument(w, h, vb, m)) : w \in SizeTexts, h \in SizeTexts,
                                    vb \in ViewBoxTexts, m \in Markups}
    \cup {Unreadable}

\* values of svgData.raw
RawTexts ==
  { Undefined, Some(<<>>),
    Some(SvgDocument(Undefined, Undefined, Some(VB_0_0_20_10), <<Elem("g", <<>>)>>)),
    Some(SvgDocument(Undefined, Undefined, Undefined,
                     <<Ws(" "), Elem("g", <<>>), PathM0, Ws("\n")>>)),
    Some(SvgDocument(Undefined, Undefined, Some(VB_0_0_20_10), <<Ws(" ")>>)),
    Some(<<Elem("g", <<>>)>>) }

\* values of svgData.path
PathValues ==
  { Undefined, Some(PathString(<<>>)), Some(PathString(<<" ">>)),
    Some(PathString(<<"M", "1">>)), Some(PathArray(<<>>)),
    Some(PathArray(<< <<" ">> >>)), Some(PathArray(<< <<"M", "1">> >>)),
    Some(PathArray(<< <<"M", "2">>, <<" ">>, <<>>, <<"M", "1">> >>)) }

Descriptors ==
  {SvgData(raw, path, Undefined, Undefined, Undefined) : raw \in RawTexts, path \in PathValues}

\* a caller invokes parseSvgFile(filePath) on a file of the kit
ParseSvgFileCall ==
  /\ answer = NoAnswer
  /\ \E file \in SvgInputs :
       answer' = [op |-> "parseSvgFile", file |-> file, result |-> ParseSvgFile(file)]
  /\ UNCHANGED <<db, pc, metadata, svgSubdirs, style, svgFiles, listed, last, lastArg,
                 step, kit, validation, config, calls, written>>

\* a caller invokes buildSvgBody(svgData)
BuildSvgBodyCall ==
  /\ answer = NoAnswer
  /\ \E svgData \in Descriptors :
       answer' = [op |-> "buildSvgBody", svgData |-> svgData,
                  result |-> BuildSvgBody(svgData)]
  /\ UNCHANGED <<db, pc, metadata, svgSubdirs, style, svgFiles, listed, last, lastArg,
                 step, kit, validation, config, calls, written>>

NextSvg ==
  \/ ParseSvgFileCall
  \/ BuildSvgBodyCall

SpecSvg == Init /\ [][NextSvg]_vars

(***************************************************************************)
(* runConverter: one run of the workflow over a kit                        *)
(*   step        where the run stands: "confirm", "install", "validate",   *)
(*               "configure", "output", "initDatabase", "parseKit",        *)
(*               "select", "generate", or how it ended: "cancelled",       *)
(*               "rejected" (validation failed), "outputError", "noIcons", *)
(*               "noSelection", "done", "failed" (catch, process.exit(1))  *)
(*   kit         the kit in the working directory                          *)
(*   validation  what validateKit returned                                 *)
(*   config      the KitConfig of the run                                  *)
(*   calls       the services called so far, in order                      *)
(*   written     the files of the package written so far                   *)
(*   answer      what the call made last returned: for generatePackage the  *)
(*               icon sets, the total and what package.json and            *)
(*               src/index.ts export; for a parseKit pass the order it     *)
(*               took, the table before it and its insertIcon calls        *)
(***************************************************************************)
DirStates == {"absent", "file", "dir", "locked"}

IconsJson == <<"i", "c", "o", "n", "s", ".", "j", "s", "o", "n">>

NotesTxt == <<"n", "o", "t", "e", "s", ".", "t", "x", "t">>

ExtraJson == <<"x", ".", "j", "s", "o", "n">>

MetadataListings == { {}, {NotesTxt}, {IconsJson}, {ExtraJson, NotesTxt} }

SvgEntry(name, file) == [name |-> name, file |-> file]

StyleDir(st, files) == [style |-> st, files |-> files]

\* the svgs directory of a kit: its style subdirectories with their files
StyleDirListings ==
  { <<>>,
    <<StyleDir(StyleR, <<>>)>>,
    <<StyleDir(StyleR, <<SvgEntry(NameA, File(SvgViewBoxOnly))>>)>>,
    <<StyleDir(StyleS, <<SvgEntry(NameB, File(SvgExplicit))>>),
      StyleDir(StyleR, <<SvgEntry(NameA, File(SvgViewBoxOnly)),
                         SvgEntry(NameB, Unreadable)>>)>> }

\* the document in metadata/icons.json, when the directory holds that file
IconsDocument == (NameA :> IconFull) @@ (NameB :> IconSparse)

Kits ==
  { [dirs |-> d, metadataFiles |-> m, styleDirs |-> sd] :
      d \in [{"metadata", "svgs", "otfs"} -> DirStates],
      m \in MetadataListings, sd \in StyleDirListings }

\* the document in metadata/x.json, when the directory holds that file
ExtraDocument == (NameB :> IconNoSvg)

\* the icons a JSON file of the metadata directory defines
MetadataDocument(file) == IF file = IconsJson THEN IconsDocument ELSE ExtraDocument

\* parseKit: readJsonFile(metadata/icons.json) and Object.assign
KitMetadata(k) ==
  IF IconsJson \in k.metadataFiles THEN IconsDocument ELSE EmptyObject

\* parseKit: the inner loop over the files of one style directory
RECURSIVE ParseFiles(_, _, _, _)
ParseFiles(table, md, st, files) ==
  IF files = <<>> THEN table
  ELSE ParseFiles(
         IF IsDefined(Reconciled(md, Head(files).name, st, Head(files).file))
           THEN InsertIcon(table, Get(Reconciled(md, Head(files).name, st, Head(files).file)))
           ELSE table,
         md, st, Tail(files))

\* parseKit: the outer loop over the style directories
RECURSIVE ParseStyleDirs(_, _, _)
ParseStyleDirs(table, md, styleDirs) ==
  IF styleDirs = <<>> THEN table
  ELSE ParseStyleDirs(ParseFiles(table, md, Head(styleDirs).style, Head(styleDirs).files),
                      md, Tail(styleDirs))

\* parseKit(db) over a kit: the table afterwards
ParseKit(table, k) == ParseStyleDirs(table, KitMetadata(k), k.styleDirs)

InitRun ==
  /\ db = <<>>
  /\ pc = "start"
  /\ metadata = EmptyObject
  /\ svgSubdirs = <<>>
  /\ style = <<>>
  /\ svgFiles = <<>>
  /\ listed = [s \in Styles |-> Undefined]
  /\ last = NoFile
  /\ lastArg = <<>>
  /\ answer = NoAnswer
  /\ step = "confirm"
  /\ kit \in Kits
  /\ validation = Undefined
  /\ config = NoConfig
  /\ calls = <<>>
  /\ written = {}

parserVars == <<pc, metadata, svgSubdirs, style, svgFiles, listed, last, lastArg>>

\* confirm(...); if (!proceed) { cancel(...); return; }
Confirm ==
  /\ step = "confirm"
  /\ \E proceed \in BOOLEAN : step' = IF proceed THEN "install" ELSE "cancelled"
  /\ calls' = Append(calls, "confirm")
  /\ UNCHANGED <<db, parserVars, answer, kit, validation, config, written>>

\* await installDependencies(): it throws when bun add cannot be spawned
InstallDependencies ==
  /\ step = "install"
  /\ \E installed \in BOOLEAN : step' = IF installed THEN "validate" ELSE "failed"
  /\ calls' = Append(calls, "installDependencies")
  /\ UNCHANGED <<db, parserVars, answer, kit, validation, config, written>>

\* mutant: a failed validation does not end the run
RejectsKit_Never(result) == FALSE

\* if (!validation.isValid) { outro(...); return; }
RejectsKit(result) == ~result.isValid

\* const validation = await validateKit(); ...
Validate ==
  /\ step = "validate"
  /\ calls' = Append(calls, "validateKit")
  /\ IF ValidateKit(kit).outcome = "threw"
       THEN /\ step' = "failed"
            /\ UNCHANGED validation
       ELSE /\ validation' = Some(ValidateKit(kit))
            /\ step' = IF RejectsKit(ValidateKit(kit)) THEN "rejected" ELSE "configure"
  /\ UNCHANGED <<db, parserVars, answer, kit, config, written>>

\* the text prompts that fill config
Configure ==
  /\ step = "configure"
  /\ config' = [prefix |-> Prefix, selectedStyles |-> <<>>]
  /\ step' = "output"
  /\ calls' = Append(calls, "prompts")
  /\ UNCHANGED <<db, parserVars, answer, kit, validation, written>>

\* try { await ensureDirectory(config.outputDir) } catch { outro(...); return; }
EnsureDirectory ==
  /\ step = "output"
  /\ \E usable \in BOOLEAN : step' = IF usable THEN "initDatabase" ELSE "outputError"
  /\ calls' = Append(calls, "ensureDirectory")
  /\ UNCHANGED <<db, parserVars, answer, kit, validation, config, written>>

\* const db = initDatabase()
CreateDatabase ==
  /\ step = "initDatabase"
  /\ db' = <<>>
  /\ step' = "parseKit"
  /\ calls' = Append(calls, "initDatabase")
  /\ UNCHANGED <<parserVars, answer, kit, validation, config, written>>

\* await parseKit(db); availableStyles = getAvailableStyles(db);
\* if (availableStyles.length === 0) { outro(...); return; }
ParseKitStep ==
  /\ step = "parseKit"
  /\ calls' = Append(calls, "parseKit")
  /\ db' = ParseKit(db, kit)
  /\ step' = IF GetAvailableStyles(ParseKit(db, kit)) = <<>> THEN "noIcons" ELSE "select"
  /\ metadata' = KitMetadata(kit)
  /\ UNCHANGED <<pc, svgSubdirs, style, svgFiles, listed, last, lastArg,
                 answer, kit, validation, config, written>>

\* mutant: an empty selection does not end the run
NoSelection_Never(selected) == FALSE

\* if (config.selectedStyles.length === 0) { cancel(...); return; }
NoSelection(selected) == Len(selected) = 0

\* config.selectedStyles = await multiselect over availableStyles; ...
SelectStyles ==
  /\ step = "select"
  /\ \E selected \in Listings(DistinctStyles(db), Cardinality(DistinctStyles(db))) :
       /\ config' = [config EXCEPT !.selectedStyles = selected]
       /\ step' = IF NoSelection(selected) THEN "noSelection" ELSE "generate"
  /\ calls' = Append(calls, "multiselect")
  /\ UNCHANGED <<db, parserVars, answer, kit, validation, written>>

\* const totalIcons = await generatePackage(db, config); outro(...)
GeneratePackageStep ==
  /\ step = "generate"
  /\ calls' = Append(calls, "generatePackage")
  /\ \E writable \in BOOLEAN :
       IF writable
         THEN /\ answer' = [op |-> "generatePackage", writable |-> writable,
                            outcome |-> "returned",
                            styleSets |-> GeneratePackage(db, config).styleSets,
                            totalIcons |-> GeneratePackage(db, config).totalIcons,
                            exports |-> GeneratePackage(db, config).exports,
                            indexExports |-> GeneratePackage(db, config).indexExports]
              /\ written' = GeneratePackage(db, config).files
              /\ step' = "done"
         ELSE /\ answer' = [op |-> "generatePackage", writable |-> writable,
                            outcome |-> "threw",
                            styleSets |-> EmptyObject, totalIcons |-> 0,
                            exports |-> {}, indexExports |-> <<>>]
              /\ written' = {}
              /\ step' = "failed"
  /\ UNCHANGED <<db, parserVars, kit, validation, config>>

NextRun ==
  \/ Confirm
  \/ InstallDependencies
  \/ Validate
  \/ Configure
  \/ EnsureDirectory
  \/ CreateDatabase
  \/ ParseKitStep
  \/ SelectStyles
  \/ GeneratePackageStep

SpecRun == InitRun /\ [][NextRun]_vars

(***************************************************************************)
(* parseKit as one call: passes over a kit whose readdir order varies, on   *)
(* a store that may already hold records                                    *)
(***************************************************************************)
\* most insertIcon calls made on the store before the first pass
MaxPrior == 1

\* most parseKit passes over the store
MaxPasses == 2

\* parseKit: the insertIcon calls of the inner loop over one style directory
RECURSIVE FileCalls(_, _, _)
FileCalls(md, st, files) ==
  IF files = <<>> THEN <<>>
  ELSE (IF IsDefined(Reconciled(md, Head(files).name, st, Head(files).file))
          THEN <<Get(Reconciled(md, Head(files).name, st, Head(files).file))>>
          ELSE <<>>)
       \o FileCalls(md, st, Tail(files))

\* parseKit: the insertIcon calls of one pass, in order
RECURSIVE InsertCalls(_, _)
InsertCalls(md, styleDirs) ==
  IF styleDirs = <<>> THEN <<>>
  ELSE FileCalls(md, Head(styleDirs).style, Head(styleDirs).files)
       \o InsertCalls(md, Tail(styleDirs))

\* the files a style directory of these kits may hold
PassEntries ==
  {SvgEntry(n, f) : n \in StoreNames, f \in {File(SvgExplicit), Unreadable}}

EntryNames(files) == [i \in 1..Len(files) |-> files[i].name]

\* readdir of a style directory: entries with distinct names, in any order
PassFiles(n) == {q \in DistinctSeqs(PassEntries, n) : NoRepeat(EntryNames(q))}

RECURSIVE CountFiles(_)
CountFiles(styleDirs) ==
  IF styleDirs = <<>> THEN 0
  ELSE Len(Head(styleDirs).files) + CountFiles(Tail(styleDirs))

\* the svgs directories of these kits, in the order readdir lists them
PassStyleDirs ==
  { sd \in UNION { [1..Len(sts) -> {StyleDir(st, fs) : st \in Styles, fs \in PassFiles(MaxFiles)}]
                     : sts \in Listings(Styles, Cardinality(Styles)) } :
      /\ \A i, j \in 1..Len(sd) : i # j => sd[i].style # sd[j].style
      /\ CountFiles(sd) <= MaxFiles }

PassKits ==
  { [dirs |-> [d \in {"metadata", "svgs", "otfs"} |-> "dir"],
     metadataFiles |-> {IconsJson}, styleDirs |-> sd] : sd \in PassStyleDirs }

\* the same entries in another order
Orders(q) ==
  { [i \in 1..Len(q) |-> q[p[i]]] :
      p \in {f \in [1..Len(q) -> 1..Len(q)] : \A i, j \in 1..Len(q) : i # j => f[i] # f[j]} }

RECURSIVE FileOrders(_)
FileOrders(styleDirs) ==
  IF styleDirs = <<>> THEN {<<>>}
  ELSE { <<StyleDir(Head(styleDirs).style, fs)>> \o rest :
           fs \in Orders(Head(styleDirs).files), rest \in FileOrders(Tail(styleDirs)) }

\* the orders in which the two readdir loops of parseKit may visit a kit
Reorderings(styleDirs) == UNION {Orders(sd) : sd \in FileOrders(styleDirs)}

\* records a caller may have put into the store before the pass
PriorRecords == {IconDataTwo(NameA, StyleR), IconDataTwo(NameB, StyleS)}

Runs == IF answer.op = "parseKit" THEN answer.runs ELSE 0

InitPass ==
  /\ db = <<>>
  /\ pc = "start"
  /\ metadata = EmptyObject
  /\ svgSubdirs = <<>>
  /\ style = <<>>
  /\ svgFiles = <<>>
  /\ listed = [s \in Styles |-> Undefined]
  /\ last = NoFile
  /\ lastArg = <<>>
  /\ answer = NoAnswer
  /\ step = "idle"
  /\ kit \in PassKits
  /\ validation = Undefined
  /\ config = NoConfig
  /\ calls = <<>>
  /\ written = {}

\* insertIcon(db, iconData) by a caller before parseKit runs
InsertPrior ==
  /\ pc = "start"
  /\ Len(db) < MaxPrior
  /\ \E iconData \in PriorRecords : db' = InsertIcon(db, iconData)
  /\ UNCHANGED <<pc, metadata, svgSubdirs, style, svgFiles, listed, last, lastArg, runVars>>

\* await parseKit(db): one whole pass, the directories listed in some order
ParseKitPass ==
  /\ pc \in {"start", "done"}
  /\ Runs < MaxPasses
  /\ \E order \in Reorderings(kit.styleDirs) :
       /\ db' = ParseStyleDirs(db, KitMetadata(kit), order)
       /\ answer' = [op |-> "parseKit", runs |-> Runs + 1, order |-> order,
                     before |-> db,
                     inserted |-> InsertCalls(KitMetadata(kit), order)]
  /\ metadata' = KitMetadata(kit)
  /\ pc' = "done"
  /\ UNCHANGED <<svgSubdirs, style, svgFiles, listed, last, lastArg,
                 step, kit, validation, config, calls, written>>

NextPass ==
  \/ InsertPrior
  \/ ParseKitPass

SpecPass == InitPass /\ [][NextPass]_vars

(***************************************************************************)
(* Properties                                                              *)
(***************************************************************************)
Rows(table, name, st) == {i \in 1..Len(table) : SameKey(table[i], name, st)}

RowFor(table, name, st) == table[CHOOSE i \in Rows(table, name, st) : TRUE]

\* the file visited last went through the inner loop of parseKit
Visited == last.outcome \in {"inserted", "nobody", "nometa"}

LastParsed == ParseSvgFile(last.file)

\* the metadata descriptor for the pair visited last
LastSvgData ==
  IF last.hasEntry THEN SvgDataOf(metadata[last.name], last.style) ELSE Undefined

LastDescriptorBody ==
  IF IsDefined(LastSvgData) THEN BuildSvgBody(Get(LastSvgData)) ELSE <<>>

LastStored == HasKey(db, last.name, last.style)

LastRow == RowFor(db, last.name, last.style)

\* C1: a file that parses, for a name with a metadata entry, is stored with the
\* body, width, height and viewBox read from the file, whatever the descriptor
\* carries.
C1_FileOverridesMetadata ==
  (Visited /\ last.hasEntry /\ IsDefined(LastParsed)) =>
    /\ LastStored
    /\ LastRow.body = Get(LastParsed).body
    /\ LastRow.width = Get(LastParsed).width
    /\ LastRow.height = Get(LastParsed).height
    /\ LastRow.viewBox = Get(LastParsed).viewBox

\* explicit value, else the n-th number of a 4-element viewBox, else 512
DescriptorDimension(explicit, d, n) ==
  IF IsDefined(explicit) THEN Get(explicit)
  ELSE IF IsDefined(d.viewBox) /\ Len(Get(d.viewBox)) = 4 THEN Get(d.viewBox)[n]
  ELSE 512

\* C2: when the file does not parse and the descriptor yields a body, a record
\* is stored with the descriptor's body and with width and height each the
\* descriptor's explicit value, else its viewBox's 3rd/4th number, else 512.
C2_MetadataFallback ==
  (Visited /\ last.hasEntry /\ LastParsed = Null /\ LastDescriptorBody # <<>>) =>
    /\ LastStored
    /\ LastRow.body = LastDescriptorBody
    /\ LastRow.width = DescriptorDimension(Get(LastSvgData).width, Get(LastSvgData), 3)
    /\ LastRow.height = DescriptorDimension(Get(LastSvgData).height, Get(LastSvgData), 4)

C2_Witness ==
  /\ Visited /\ last.hasEntry /\ LastParsed = Null /\ LastDescriptorBody # <<>>
  /\ last.outcome = "inserted"
  /\ IsDefined(Get(LastSvgData).width)
  /\ ~IsDefined(Get(LastSvgData).height)
  /\ LastRow.height = 512

InListing(name, st) ==
  IsDefined(listed[st]) /\ \E i \in 1..Len(Get(listed[st])) : Get(listed[st])[i] = name

\* C3: after parseKit, every metadata name whose descriptor for a style yields
\* a body, and that has no file in that style's directory, has a record with
\* the body synthesized from the descriptor.
C3_RecordWithoutFile ==
  pc = "done" =>
    \A name \in DOMAIN metadata, st \in Styles :
      LET svgData == SvgDataOf(metadata[name], st)
      IN (/\ IsDefined(listed[st])
          /\ ~InListing(name, st)
          /\ IsDefined(svgData)
          /\ BuildSvgBody(Get(svgData)) # <<>>)
         => /\ HasKey(db, name, st)
            /\ RowFor(db, name, st).body = BuildSvgBody(Get(svgData))

\* neither the file nor the descriptor of a visited pair yields a body
HasNoBody(seen, md) ==
  /\ seen.outcome \in {"inserted", "nobody", "nometa"}
  /\ seen.hasEntry
  /\ ParseSvgFile(seen.file) = Null
  /\ LET svgData == SvgDataOf(md[seen.name], seen.style)
     IN ~IsDefined(svgData) \/ BuildSvgBody(Get(svgData)) = <<>>

Names(icons) == {icons[i].name : i \in 1..Len(icons)}

\* the step that visits such a pair
C4_StepSkips ==
  (pc = "files" /\ HasNoBody(last', metadata')) =>
    /\ db' = db
    /\ ~HasKey(db', last'.name, last'.style)
    /\ last'.name \notin Names(GetIconsByStyle(db', last'.style))
    /\ svgFiles' = Tail(svgFiles)
    /\ pc' = IF Tail(svgFiles) = <<>> THEN "styles" ELSE "files"

\* C4: a pair for which neither source yields a body is not stored, the pass
\* goes on with the remaining files, and the pair is in no style's records.
C4_SkipWithoutBody == [][C4_StepSkips]_vars

C4_Witness == HasNoBody(last, metadata) /\ svgFiles # <<>> /\ pc = "files"

\* C5: a file whose name has no entry in the loaded metadata produces no record.
C5_NoEntryNoRecord ==
  (Visited /\ ~last.hasEntry) => ~LastStored

\* C7: every stored record has a non-empty body and positive width and height.
C7_PositiveDimensions ==
  \A i \in 1..Len(db) :
    db[i].body # <<>> /\ db[i].width > 0 /\ db[i].height > 0

IsNumberText(s) == IsDefined(ParseFloat(s)) /\ NumberToString(Get(ParseFloat(s))) = s

\* the text is exactly four numbers, the last two being w and h
FourNumbersEnding(text, w, h) ==
  LET parts == Split(text)
  IN /\ Len(parts) = 4
     /\ \A i \in 1..4 : IsNumberText(parts[i])
     /\ Get(ParseFloat(parts[3])) = w
     /\ Get(ParseFloat(parts[4])) = h

\* C8 as stated: every stored viewBox is four numbers whose third and fourth
\* equal the record's width and height.
C8_ViewBoxMatchesSize ==
  \A i \in 1..Len(db) : FourNumbersEnding(db[i].viewBox, db[i].width, db[i].height)

\* the viewBox of the pair visited last comes neither from the file nor from
\* a 4-element descriptor viewBox
LastViewBoxSynthesized ==
  /\ ~IsDefined(LastParsed) \/ Get(LastParsed).viewBox = <<>>
  /\ ~IsDefined(LastSvgData) \/ ~HasViewBoxArray(Get(LastSvgData))

\* C8 amended: every stored viewBox is non-empty, and one that comes neither
\* from the file nor from a 4-element descriptor viewBox is "0 0 w h" for the
\* record's width w and height h.
C8_SynthesizedViewBoxMatchesSize ==
  /\ \A i \in 1..Len(db) : db[i].viewBox # <<>>
  /\ (last.outcome = "inserted" /\ LastViewBoxSynthesized) =>
       /\ FourNumbersEnding(LastRow.viewBox, LastRow.width, LastRow.height)
       /\ SubSeq(LastRow.viewBox, 1, 4) = <<"0", " ", "0", " ">>

C8_Witness ==
  /\ last.outcome = "inserted"
  /\ LastViewBoxSynthesized
  /\ LastRow.width # LastRow.height

\* C6: the store holds exactly one row per key ever inserted, equal in every
\* field to the latest insertIcon argument for that key, and inserting a
\* record a second time changes nothing.
C6_LastWriteWins ==
  /\ \A i \in 1..Len(db) : <<db[i].name, db[i].style>> \in DOMAIN lastArg
  /\ \A key \in DOMAIN lastArg :
       /\ Cardinality(Rows(db, key[1], key[2])) = 1
       /\ IconDataOf(RowFor(db, key[1], key[2]), RowFor(db, key[1], key[2]).style)
            = lastArg[key]
  /\ \A iconData \in IconDatas :
       InsertIcon(InsertIcon(db, iconData), iconData) = InsertIcon(db, iconData)

C6_Witness ==
  /\ last.outcome = "replaced"
  /\ Len(db) >= 2
  /\ lastArg[<<last.name, last.style>>] = IconDataTwo(last.name, last.style)

\* C9: getAvailableStyles returns exactly the styles that have a row, each
\* once, in ascending order.
C9_StylesSortedDistinct ==
  LET r == GetAvailableStyles(db)
  IN /\ {r[i] : i \in 1..Len(r)} = {st \in Styles : \E i \in 1..Len(db) : db[i].style = st}
     /\ \A i, j \in 1..Len(r) : i < j => StrLess(r[i], r[j])

C9_Witness ==
  /\ Len(db) >= 3
  /\ db[1].style = StyleS
  /\ db[Len(db)].style = StyleS
  /\ GetAvailableStyles(db) = <<StyleR, StyleS>>

\* C10: getIconsByStyle returns exactly the stored records of the style, in
\* ascending order of name.
C10_ByStyleSortedByName ==
  \A st \in Styles :
    LET r == GetIconsByStyle(db, st)
    IN /\ {r[i] : i \in 1..Len(r)}
            = {IconDataOf(db[i], db[i].style) : i \in {j \in 1..Len(db) : db[j].style = st}}
       /\ Len(r) = Cardinality({j \in 1..Len(db) : db[j].style = st})
       /\ \A i, j \in 1..Len(r) : i < j => StrLess(r[i].name, r[j].name)

(***************************************************************************)
(* searchIcons                                                             *)
(***************************************************************************)
\* q occurs in text, letters compared without regard to case
IsSubstringNoCase(q, text) ==
  \E i \in 0..(Len(text) - Len(q)) :
    \A j \in 1..Len(q) : LowerCase(text[i + j]) = LowerCase(q[j])

Stored(d) == \E i \in 1..Len(db) : db[i] = RowOf(d)

InResult(result, name, st) ==
  \E k \in 1..Len(result) : result[k].name = name /\ result[k].style = st

NameOrTermContains(d, q) ==
  \/ IsSubstringNoCase(q, d.name)
  \/ \E t \in 1..Len(d.searchTerms) : IsSubstringNoCase(q, d.searchTerms[t])

\* C11: searchIcons(query) returns a stored record if and only if the query
\* is a case-insensitive substring of the record's name or of one of its
\* search terms.
C11_SearchBySubstring ==
  answer.op = "searchIcons" /\ answer.styles = Undefined =>
    \A d \in QueryIconDatas :
      Stored(d) => (InResult(answer.result, d.name, d.style)
                      <=> NameOrTermContains(d, answer.query))

StylesRestrict(styles) == IsDefined(styles) /\ Len(Get(styles)) > 0

StyleListed(styles, st) == \E i \in 1..Len(Get(styles)) : Get(styles)[i] = st

\* C12: with a non-empty styles list searchIcons returns exactly the rows the
\* query matches whose style is listed; with the list omitted or empty it
\* returns every row the query matches; the result is ordered by name and,
\* for equal names, by style.
C12_StylesAndOrder ==
  answer.op = "searchIcons" =>
    /\ \A i \in 1..Len(db) :
         InResult(answer.result, db[i].name, db[i].style)
           <=> /\ RowMatches(db[i], answer.query)
               /\ StylesRestrict(answer.styles) => StyleListed(answer.styles, db[i].style)
    /\ \A k \in 1..Len(answer.result) :
         \E i \in 1..Len(db) : SameKey(db[i], answer.result[k].name, answer.result[k].style)
    /\ \A k \in 1..(Len(answer.result) - 1) :
         \/ StrLess(answer.result[k].name, answer.result[k + 1].name)
         \/ /\ answer.result[k].name = answer.result[k + 1].name
            /\ StrLess(answer.result[k].style, answer.result[k + 1].style)

\* a restricted search that returns two records in an order other than the
\* insertion order and leaves out a matching record of a style not listed
C12_Witness ==
  /\ answer.op = "searchIcons"
  /\ answer.styles = Some(<<StyleR>>)
  /\ Len(answer.result) = 2
  /\ \E i \in 1..Len(db) : db[i].style = StyleS /\ RowMatches(db[i], answer.query)
  /\ \E i, j \in 1..Len(db) :
       /\ i < j
       /\ SameKey(db[j], answer.result[1].name, answer.result[1].style)
       /\ SameKey(db[i], answer.result[2].name, answer.result[2].style)

(***************************************************************************)
(* generatePackage                                                         *)
(***************************************************************************)
StoredOfStyle(st) == {i \in 1..Len(db) : db[i].style = st}

Selected(st) == \E i \in 1..Len(config.selectedStyles) : config.selectedStyles[i] = st

Returned == answer.op = "generatePackage" /\ answer.outcome = "returned"

\* C13: for every selected style with a stored record generatePackage
\* builds an icon set with prefix '<config.prefix>-<style>', one icons entry
\* per stored record of the style carrying its body, width and height with
\* left = top = rotate = 0 and both flips false, and info.total equal to the
\* number of stored records of the style and to the number of entries.
C13_IconSetPerStyle ==
  Returned =>
    \A st \in Styles \cup {StyleT} :
      Selected(st) /\ StoredOfStyle(st) # {} =>
        /\ st \in DOMAIN answer.styleSets
        /\ answer.styleSets[st].prefix = Prefix \o <<"-">> \o st
        /\ DOMAIN answer.styleSets[st].icons = {db[i].name : i \in StoredOfStyle(st)}
        /\ \A i \in StoredOfStyle(st) :
             /\ db[i].name \in DOMAIN answer.styleSets[st].icons
             /\ answer.styleSets[st].icons[db[i].name] =
                  [body |-> db[i].body, width |-> db[i].width, height |-> db[i].height,
                   left |-> 0, top |-> 0, rotate |-> 0, hFlip |-> FALSE, vFlip |-> FALSE]
        /\ answer.styleSets[st].info.total = Cardinality(StoredOfStyle(st))
        /\ answer.styleSets[st].info.total = Cardinality(DOMAIN answer.styleSets[st].icons)

RECURSIVE SumTotals(_, _)
SumTotals(styleSets, S) ==
  IF S = {} THEN 0
  ELSE LET st == CHOOSE x \in S : TRUE
       IN styleSets[st].info.total + SumTotals(styleSets, S \ {st})

ParsedCall == answer.op = "parseSvgFile"

\* the value of attribute n of the svg tag of the file, Undefined without one
SvgTagAttr(file, n) ==
  LET attrs == file.content[1].attrs
      at == {i \in 1..Len(attrs) : attrs[i].n = n}
  IN IF at = {} THEN Undefined ELSE Some(attrs[CHOOSE i \in at : TRUE].v)

StartsWithNumber(text) == text # <<>> /\ IsDigit(text[1])

HasFourNumbers(viewBox) ==
  /\ Len(Split(Trim(viewBox))) = 4
  /\ \A i \in 1..4 : IsNumberText(Split(Trim(viewBox))[i])

\* the size the claim gives for an explicit attribute and the viewBox
\* component at index n
ResolvedSize(explicit, viewBox, n) ==
  IF IsDefined(explicit) /\ StartsWithNumber(Get(explicit))
    THEN DigitsValue(Get(explicit), 0)
  ELSE IF IsDefined(viewBox) /\ HasFourNumbers(Get(viewBox))
    THEN DigitsValue(Split(Trim(Get(viewBox)))[n], 0)
  ELSE 512

\* C15: parseSvgFile takes width from the leading number of the svg tag's
\* width attribute, else from the 3rd component of a viewBox of four
\* numbers, else 512; height likewise with the height attribute and the 4th
\* component; the viewBox returned is the attribute's value trimmed.
C15_SizeResolution ==
  ParsedCall /\ IsDefined(answer.result) =>
    /\ Get(answer.result).width =
         ResolvedSize(SvgTagAttr(answer.file, "width"), SvgTagAttr(answer.file, "viewBox"), 3)
    /\ Get(answer.result).height =
         ResolvedSize(SvgTagAttr(answer.file, "height"), SvgTagAttr(answer.file, "viewBox"), 4)
    /\ Get(answer.result).viewBox = Trim(Get(SvgTagAttr(answer.file, "viewBox")))

\* what stands between the svg tags of the file is nothing but whitespace
MarkupBlank(file) ==
  \A i \in 2..(Len(file.content) - 1) : file.content[i].k = "ws"

\* C16 as stated: parseSvgFile returns null exactly when the file cannot be
\* read, has no viewBox attribute, or has nothing but whitespace between
\* the svg tags; every other result has a non-empty body.
C16_NullCases ==
  ParsedCall =>
    /\ answer.result = Null
         <=> \/ ~answer.file.readable
             \/ ~IsDefined(SvgTagAttr(answer.file, "viewBox"))
             \/ MarkupBlank(answer.file)
    /\ answer.result # Null => Get(answer.result).body # <<>>

\* the file has a viewBox attribute whose value is not the empty string
HasViewBoxValue(file) ==
  /\ IsDefined(SvgTagAttr(file, "viewBox"))
  /\ Get(SvgTagAttr(file, "viewBox")) # <<>>

\* C16 amended: parseSvgFile returns null exactly when the file cannot be
\* read, has no viewBox attribute with a non-empty value, or has nothing but
\* whitespace between the svg tags; every other result has a non-empty body.
C16_NullCasesNonEmptyViewBox ==
  ParsedCall =>
    /\ answer.result = Null
         <=> \/ ~answer.file.readable
             \/ ~HasViewBoxValue(answer.file)
             \/ MarkupBlank(answer.file)
    /\ answer.result # Null => Get(answer.result).body # <<>>

\* a readable file with a viewBox and only whitespace between the svg tags
C16_Witness ==
  /\ ParsedCall
  /\ answer.file.readable
  /\ HasViewBoxValue(answer.file)
  /\ Len(answer.file.content) = 3
  /\ MarkupBlank(answer.file)
  /\ answer.result = Null

BuiltCall == answer.op = "buildSvgBody"

\* the markup between the svg tags of the raw SVG, trimmed; nothing when
\* the descriptor has no raw SVG or the raw text is not an svg element
RawInner(svgData) ==
  IF /\ IsDefined(svgData.raw)
     /\ Len(Get(svgData.raw)) >= 2
     /\ IsSvgOpen(Get(svgData.raw)[1])
     /\ IsSvgClose(Get(svgData.raw)[Len(Get(svgData.raw))])
    THEN TrimTokensEnd(TrimTokensStart(
           SubSeq(Get(svgData.raw), 2, Len(Get(svgData.raw)) - 1)))
    ELSE <<>>

HasInk(text) == \E i \in 1..Len(text) : ~IsSpace(text[i])

\* the non-blank path strings of the descriptor in their order
InkedPaths(svgData) ==
  IF IsDefined(svgData.path) THEN SelectSeq(Get(svgData.path).items, HasInk) ELSE <<>>

\* the elements of the paths, a newline between neighbours
IsPathsJoined(body, paths) ==
  /\ Len(body) = 2 * Len(paths) - 1
  /\ \A i \in 1..Len(paths) :
       body[2 * i - 1] = Elem("path", <<Attr("d", paths[i]), Attr("fill", CurrentColor)>>)
  /\ \A i \in 1..(Len(paths) - 1) : body[2 * i] = Ws("\n")

\* C17: buildSvgBody returns the trimmed inner markup of the raw SVG when it
\* is non-empty; otherwise one path element per non-blank path string, in
\* order, joined by newlines; null when neither yields content.
C17_BodyFromRawOrPaths ==
  BuiltCall =>
    IF RawInner(answer.svgData) # <<>> THEN answer.result = RawInner(answer.svgData)
    ELSE IF InkedPaths(answer.svgData) = <<>> THEN answer.result = <<>>
    ELSE IsPathsJoined(answer.result, InkedPaths(answer.svgData))

\* a descriptor without usable raw SVG whose path list has two non-blank
\* strings and blank ones between them
C17_Witness ==
  /\ BuiltCall
  /\ RawInner(answer.svgData) = <<>>
  /\ IsDefined(answer.svgData.path)
  /\ Len(Get(answer.svgData.path).items) = 4
  /\ Len(InkedPaths(answer.svgData)) = 2
  /\ Len(answer.result) = 3

(***************************************************************************)
(* validateKit, runConverter                                               *)
(***************************************************************************)
NotADirectory(d) == kit.dirs[d] \in {"absent", "file"}

BadRequiredDir == \E d \in {"metadata", "svgs", "otfs"} : NotADirectory(d)

Called(service) == \E i \in 1..Len(calls) : calls[i] = service

ValidationFailed == IsDefined(validation) /\ ~Get(validation).isValid

\* C18: when a required kit directory is missing or is not a directory,
\* runConverter reports the failure and ends before the store is created
\* and before parseKit or generatePackage is called; no icon is processed
\* and no package file is written.
C18_MissingDirectoryAborts ==
  BadRequiredDir =>
    /\ ~Called("initDatabase") /\ ~Called("parseKit") /\ ~Called("generatePackage")
    /\ db = <<>>
    /\ written = {}
    /\ Called("validateKit") =>
         /\ step = "rejected"
         /\ ValidationFailed
         /\ Get(validation).errors # <<>>

\* a run rejected for its otfs path alone, over a kit that has metadata and
\* SVG files to parse
C18_Witness ==
  /\ step = "rejected"
  /\ NotADirectory("otfs")
  /\ kit.dirs["metadata"] = "dir" /\ kit.dirs["svgs"] = "dir"
  /\ ParseKit(<<>>, kit) # <<>>

\* C19 as stated: validateKit reports a failure only when a required kit
\* directory is missing or is not a directory.
C19_OnlyMissingDirectoryFails ==
  ValidationFailed => Get(validation).errors # <<>> /\ BadRequiredDir

HoldsNoJson == kit.metadataFiles \cap {IconsJson, ExtraJson} = {}

\* C19 amended: validateKit reports a failure only when a required kit
\* directory is missing or is not a directory, or when the metadata
\* directory holds no file whose name ends in .json.
C19_OnlyDirectoryOrMetadataFails ==
  ValidationFailed => Get(validation).errors # <<>> /\ (BadRequiredDir \/ HoldsNoJson)

\* a kit with its three directories and SVG files, and no JSON file in
\* the metadata directory
C19_Witness ==
  /\ ValidationFailed
  /\ ~BadRequiredDir
  /\ HoldsNoJson
  /\ kit.styleDirs # <<>>

ErrorsFor(d) == {i \in 1..Len(Get(validation).errors) : Get(validation).errors[i].dir = d}

\* C20: when required kit directories are missing or are not directories,
\* validateKit checks all of them and returns exactly one error for each
\* such directory and none for a directory that is present and valid.
C20_OneErrorPerBadDirectory ==
  IsDefined(validation) /\ BadRequiredDir =>
    /\ \A d \in {"metadata", "svgs", "otfs"} :
         Cardinality(ErrorsFor(d)) = IF NotADirectory(d) THEN 1 ELSE 0
    /\ Len(Get(validation).errors)
         = Cardinality({d \in {"metadata", "svgs", "otfs"} : NotADirectory(d)})

\* the first and the last required path fail, the one between is valid
C20_Witness ==
  /\ IsDefined(validation)
  /\ kit.dirs["metadata"] = "absent"
  /\ kit.dirs["svgs"] = "dir"
  /\ kit.dirs["otfs"] = "file"
  /\ Len(Get(validation).errors) = 2

\* the viewBox the claim names for the pair visited last: the file's string
\* when the file parsed, else the descriptor's four numbers joined by single
\* spaces, else "0 0 w h" for the given width and height
ClaimedViewBox(w, h) ==
  IF IsDefined(LastParsed) THEN Get(LastParsed).viewBox
  ELSE IF IsDefined(LastSvgData) /\ HasViewBoxArray(Get(LastSvgData))
    THEN JoinSpace(Get(Get(LastSvgData).viewBox))
  ELSE <<"0", " ", "0", " ">> \o NumberToString(w) \o <<" ">> \o NumberToString(h)

\* C21: the viewBox of a record stored by parseKit is the file's viewBox string
\* when the file parsed, otherwise the descriptor's four viewBox numbers joined
\* by single spaces, otherwise "0 0 <width> <height>" for the record's width
\* and height.
C21_ViewBoxSource ==
  last.outcome = "inserted" =>
    LastRow.viewBox = ClaimedViewBox(LastRow.width, LastRow.height)

\* a pair the pass reconciles (its name has a metadata value) for which the
\* file or the descriptor yields a body
YieldsBody(md, st, entry) ==
  /\ IsDefined(MetadataLookup(md, entry.name))
  /\ \/ IsDefined(ParseSvgFile(entry.file))
     \/ /\ IsDefined(SvgDataOf(Get(MetadataLookup(md, entry.name)), st))
        /\ BuildSvgBody(Get(SvgDataOf(Get(MetadataLookup(md, entry.name)), st))) # <<>>

CallsFor(inserted, name, st) ==
  {i \in 1..Len(inserted) : inserted[i].name = name /\ inserted[i].style = st}

\* C22: within one parseKit pass insertIcon is called at most once for each
\* (name, style) key and exactly once for each pair that yields a body, and the
\* row the store holds for a key afterwards is the row of that call alone,
\* whatever the store held for the key before the pass.
C22_OneInsertPerKey ==
  answer.op = "parseKit" =>
    /\ \A i, j \in 1..Len(answer.inserted) :
         i # j => Key(answer.inserted[i]) # Key(answer.inserted[j])
    /\ \A d \in 1..Len(answer.order) :
         \A f \in 1..Len(answer.order[d].files) :
           YieldsBody(metadata, answer.order[d].style, answer.order[d].files[f]) =>
             Cardinality(CallsFor(answer.inserted, answer.order[d].files[f].name,
                                  answer.order[d].style)) = 1
    /\ \A i \in 1..Len(answer.inserted) :
         /\ Cardinality(Rows(db, answer.inserted[i].name, answer.inserted[i].style)) = 1
         /\ RowFor(db, answer.inserted[i].name, answer.inserted[i].style)
              = RowOf(answer.inserted[i])

\* a pass that overwrote a record the store already held with other values
C22_Witness ==
  /\ answer.op = "parseKit"
  /\ answer.runs = 1
  /\ Len(answer.inserted) = 2
  /\ \E i \in 1..Len(answer.inserted) :
       /\ HasKey(answer.before, answer.inserted[i].name, answer.inserted[i].style)
       /\ RowFor(answer.before, answer.inserted[i].name, answer.inserted[i].style)
            # RowOf(answer.inserted[i])

RowSet(table) == {table[i] : i \in 1..Len(table)}

\* C23: a second parseKit pass on the same store over the unchanged kit
\* returns and leaves the store with the same records as after the first
\* pass: the same keys with the same field values, one row each.
C23_SecondPassKeepsRecords ==
  (answer.op = "parseKit" /\ answer.runs >= 2) =>
    /\ pc = "done"
    /\ RowSet(db) = RowSet(answer.before)
    /\ Len(db) = Len(answer.before)

\* a second pass that wrote records again, in another order than the first
C23_Witness ==
  /\ answer.op = "parseKit"
  /\ answer.runs = 2
  /\ Len(answer.inserted) >= 2
  /\ db # answer.before

\* C24: the records the store holds after a parseKit pass on a new store, and
\* the order in which getIconsByStyle lists them, are those of the pass that
\* visits the kit in listing order, whatever order the pass took.
C24_OrderIndependent ==
  (answer.op = "parseKit" /\ answer.runs = 1 /\ answer.before = <<>>) =>
    /\ RowSet(db) = RowSet(ParseKit(<<>>, kit))
    /\ \A st \in Styles :
         GetIconsByStyle(db, st) = GetIconsByStyle(ParseKit(<<>>, kit), st)

\* search.terms of a metadata entry, or the empty list
TermsOf(icon) == IF IsDefined(icon.searchTerms) THEN Get(icon.searchTerms) ELSE <<>>

\* C25: every record getIconsByStyle returns during or after a parseKit pass
\* has a metadata entry, carries that entry's unicode, and carries that entry's
\* search.terms in the same order, or the empty list when the entry has none.
C25_UnicodeAndTermsCopied ==
  \A st \in Styles :
    \A i \in 1..Len(GetIconsByStyle(db, st)) :
      /\ GetIconsByStyle(db, st)[i].name \in DOMAIN metadata
      /\ GetIconsByStyle(db, st)[i].unicode
           = metadata[GetIconsByStyle(db, st)[i].name].unicode
      /\ GetIconsByStyle(db, st)[i].searchTerms
           = TermsOf(metadata[GetIconsByStyle(db, st)[i].name])

\* C26: for a file whose svg tag carries neither width nor height,
\* parseSvgFile returns the 3rd and 4th components of a viewBox of four
\* numbers, or 512 and 512, whatever attributes the elements inside carry.
C26_InnerAttributesIgnored ==
  (/\ ParsedCall
   /\ IsDefined(answer.result)
   /\ ~IsDefined(SvgTagAttr(answer.file, "width"))
   /\ ~IsDefined(SvgTagAttr(answer.file, "height"))) =>
    /\ Get(answer.result).width
         = ResolvedSize(Undefined, SvgTagAttr(answer.file, "viewBox"), 3)
    /\ Get(answer.result).height
         = ResolvedSize(Undefined, SvgTagAttr(answer.file, "viewBox"), 4)

\* the rows of the table whose key is not (name, st), in table order
OtherKeys(table, name, st) ==
  LET Other(r) == ~SameKey(r, name, st) IN SelectSeq(table, Other)

\* the list of styles without st
Without(styles, st) == LET Keep(s) == s # st IN SelectSeq(styles, Keep)

\* insertIcon for key (name, st) took the table from before to after
InsertFrame(before, after, name, st) ==
  /\ OtherKeys(after, name, st) = OtherKeys(before, name, st)
  /\ Without(GetAvailableStyles(after), st) = Without(GetAvailableStyles(before), st)
  /\ \E i \in 1..Len(GetAvailableStyles(after)) : GetAvailableStyles(after)[i] = st

\* C27: insertIcon for key (name, style) leaves every stored record with
\* another key unchanged in all fields, and getAvailableStyles afterwards is
\* its result before with, at most, the inserted record's style added.
C27_InsertFrame ==
  [][last'.outcome \in {"added", "replaced"} =>
       InsertFrame(db, db', last'.name, last'.style)]_vars

\* an insert that replaced a record while the store held records of other
\* keys, one of them of the same name, and brought no new style
C27_Witness ==
  /\ last.outcome = "replaced"
  /\ Len(db) >= 3
  /\ \E i \in 1..Len(db) : db[i].name = last.name /\ db[i].style # last.style

\* the styles for which both files of an icon set were written
WrittenSets ==
  {st \in Styles \cup {StyleT} :
     <<"src/", st, ".json">> \in written /\ <<"src/", ExportName(st), ".ts">> \in written}

\* C28: after generatePackage returned, the modules src/index.ts exports and
\* the entries of the package.json exports map are exactly the fa<Style>Set
\* modules of the styles whose icon-set files were written.
C28_ExportsMatchFiles ==
  Returned =>
    /\ {answer.indexExports[i] : i \in 1..Len(answer.indexExports)}
         = {ExportName(st) : st \in WrittenSets}
    /\ answer.exports = {ExportName(st) : st \in WrittenSets}

\* C29: once parseKit has run on a kit validateKit accepted, every icon name
\* defined by a .json file of the metadata directory, the files validateKit
\* counted, is in the metadata mapping parseKit reconciles files against.
C29_AcceptedMetadataLoaded ==
  (Called("parseKit") /\ IsDefined(validation) /\ Get(validation).isValid) =>
    \A file \in JsonFiles(kit.metadataFiles) :
      DOMAIN MetadataDocument(file) \subseteq DOMAIN metadata

\* the services of a run in the order runConverter names them
StepOrder ==
  << "confirm", "installDependencies", "validateKit", "prompts", "ensureDirectory",
     "initDatabase", "parseKit", "multiselect", "generatePackage" >>

LastCall == calls[Len(calls)]

\* C30: the services runConverter has called are always an initial part of
\* the fixed order, nothing is called after a declined confirmation, a failed
\* validation, an output-directory error, an empty list of available styles
\* or an empty selection, and generatePackage is only ever called with a
\* non-empty selection on a store that holds records.
C30_FixedOrder ==
  /\ Len(calls) <= Len(StepOrder)
  /\ calls = SubSeq(StepOrder, 1, Len(calls))
  /\ step = "cancelled" => LastCall = "confirm"
  /\ ValidationFailed => LastCall = "validateKit"
  /\ step = "outputError" => LastCall = "ensureDirectory"
  /\ (Called("parseKit") /\ GetAvailableStyles(db) = <<>>) => LastCall = "parseKit"
  /\ (Called("multiselect") /\ config.selectedStyles = <<>>) => LastCall = "multiselect"
  /\ Called("generatePackage") => (config.selectedStyles # <<>> /\ db # <<>>)

\* a run that went through every step and wrote the package
C30_Witness ==
  /\ step = "done"
  /\ calls = StepOrder
  /\ Len(config.selectedStyles) = 2

====
